---- MODULE Spec2Model ----
(***************************************************************************)
(* State-machine model of the render-target core of sfml_graphics:         *)
(* RenderTarget and its state cache, the shared SfmlRenderPipeline, the    *)
(* window-backed and framebuffer-backed targets and the OpenGL state they  *)
(* drive.  Every operator that models code keeps the name of the function  *)
(* it models; sequential C++ code is written as a chain of state           *)
(* transformers over one record `s` holding the whole program state.       *)
(***************************************************************************)
EXTENDS Integers, Sequences, FiniteSets, TLC

VARIABLES
    targets,          \* RenderTarget objects: m_id, m_view, m_cache, ...
    lastActiveId,     \* RenderTarget.cpp: lastActiveId
    targetNextId,     \* RenderTarget.cpp getUniqueId: static id
    textureNextId,    \* Texture.cpp getUniqueId: static id
    textures,         \* Texture objects
    pipelineRefCount, \* RenderTarget.cpp: pipelineRefCount
    pipeline,         \* RenderTarget.cpp: pipeline (NoPipeline when null)
    gl,               \* the OpenGL context state the code reads and writes
    fbo,              \* the RenderTextureImplFBO of the offscreen target
    vbuf,             \* the caller's sf::VertexBuffer
    call,             \* the operation executed by the last step
    lastDrawn,        \* per target, the blend mode of its last executed draw
    threads,          \* the threads inside getUniqueId: position, counter, id read
    mutexes,          \* owner of RenderTarget.cpp mutex and of Texture.cpp idMutex
    handed,           \* per counter, the ids getUniqueId has returned, in order
    issued            \* the GPU commands issued by the last step, in order

vars == <<targets, lastActiveId, targetNextId, textureNextId, textures,
          pipelineRefCount, pipeline, gl, fbo, vbuf, call, lastDrawn,
          threads, mutexes, handed, issued>>

----------------------------------------------------------------------------
(* Bounds of the model *)

\* ids handed out by one counter before the model stops creating objects
MaxIds == 4
\* largest vertex count of a caller's VertexBuffer
MaxVbSize == 3
\* framebuffer / renderbuffer names the GL context can hand out
MaxGlNames == 2
\* GL_MAX_SAMPLES of the platform
MaxSamples == 2
\* the sizes 0 .. MaxSize are passed to Texture::getValidSize
MaxSize == 64
\* GL_MAX_TEXTURE_SIZE of the context
MaxTextureSize == 4
\* texture ids handed out before the texture operations stop
MaxTextureIds == 5

----------------------------------------------------------------------------
(* Program constants *)

\* SfmlRenderPipeline::MAX_VERTEX
MAX_VERTEX == 65536
\* sizeof(sf::Vertex): 2 floats, 4 unsigned bytes, 2 floats
SizeofVertex == 20
\* native handle of the built-in program (m_shaderId), of the pipeline's
\* vertex array (m_vao) and of its vertex buffer (m_vbo)
BuiltinProgram == 1
PipelineVao == 1
PipelineVbo == 1
\* native handles of the caller's VertexBuffer, once created
CallerVao == 2
CallerVbo == 2
\* size of the window, as in the example
WindowWidth == 800
WindowHeight == 600

----------------------------------------------------------------------------
(* Values *)

Threads == {"th1", "th2", "th3"}
Windows == {"w1", "w2"}
Offscreen == {"rt"}
Targets == Windows \cup Offscreen

NULL == "NULL"

\* sf::BlendMode: colour and alpha factors and equations
BlendAlpha == [colorSrcFactor |-> "SrcAlpha", colorDstFactor |-> "OneMinusSrcAlpha",
               colorEquation |-> "Add",
               alphaSrcFactor |-> "One", alphaDstFactor |-> "OneMinusSrcAlpha",
               alphaEquation |-> "Add"]
BlendAdd == [colorSrcFactor |-> "SrcAlpha", colorDstFactor |-> "One",
             colorEquation |-> "Add",
             alphaSrcFactor |-> "One", alphaDstFactor |-> "One",
             alphaEquation |-> "Add"]
BlendNone == [colorSrcFactor |-> "One", colorDstFactor |-> "Zero",
              colorEquation |-> "Add",
              alphaSrcFactor |-> "One", alphaDstFactor |-> "Zero",
              alphaEquation |-> "Add"]
BlendModes == {BlendAlpha, BlendAdd, BlendNone}

\* sf::Transform restricted to scalings and translations, written as the
\* centre and size of the view that has this matrix: the identity is the
\* matrix of the view centred on (0, 0) of size (2, -2)
IdentityTransform == [center |-> <<0, 0>>, size |-> <<2, -2>>]

\* sf::Transform values a caller passes in RenderStates
Transforms == {IdentityTransform}

\* sf::View: centre and size of the world rectangle, and the viewport in
\* quarters of the target size (so 2 is 0.5 and 4 is 1.0, exact as floats)
ViewOfRect(left, top, width, height) ==
    [center |-> <<left + width \div 2, top + height \div 2>>,
     size |-> <<width, height>>,
     viewport |-> <<0, 0, 4, 4>>]

\* sf::View(): reset(FloatRect(0, 0, 1000, 1000)), viewport (0, 0, 1, 1)
DefaultConstructedView == ViewOfRect(0, 0, 1000, 1000)

\* the camera of the example, and a view on the lower left quarter
CameraView == [center |-> <<400, 300>>, size |-> <<800, 600>>, viewport |-> <<0, 0, 4, 4>>]
QuarterView == [center |-> <<200, 150>>, size |-> <<400, 300>>, viewport |-> <<0, 2, 2, 2>>]
Views == {CameraView, QuarterView}

\* View::getTransform(): the projection matrix is a function of the centre
\* and the size of the view (rotation 0); the viewport does not enter it
ViewGetTransform(view) == [center |-> view.center, size |-> view.size]

----------------------------------------------------------------------------
(* Conversions of RenderTarget.cpp *)

\* factorToGlConstant
factorToGlConstant(blendFactor) ==
    CASE blendFactor = "Zero"             -> "GL_ZERO"
      [] blendFactor = "One"              -> "GL_ONE"
      [] blendFactor = "SrcColor"         -> "GL_SRC_COLOR"
      [] blendFactor = "OneMinusSrcColor" -> "GL_ONE_MINUS_SRC_COLOR"
      [] blendFactor = "DstColor"         -> "GL_DST_COLOR"
      [] blendFactor = "OneMinusDstColor" -> "GL_ONE_MINUS_DST_COLOR"
      [] blendFactor = "SrcAlpha"         -> "GL_SRC_ALPHA"
      [] blendFactor = "OneMinusSrcAlpha" -> "GL_ONE_MINUS_SRC_ALPHA"
      [] blendFactor = "DstAlpha"         -> "GL_DST_ALPHA"
      [] blendFactor = "OneMinusDstAlpha" -> "GL_ONE_MINUS_DST_ALPHA"
      [] OTHER                            -> "GL_ZERO"

\* equationToGlConstant
equationToGlConstant(blendEquation) ==
    CASE blendEquation = "Add"             -> "GL_FUNC_ADD"
      [] blendEquation = "Subtract"        -> "GL_FUNC_SUBTRACT"
      [] blendEquation = "ReverseSubtract" -> "GL_FUNC_REVERSE_SUBTRACT"
      [] blendEquation = "Min"             -> "GL_MIN"
      [] blendEquation = "Max"             -> "GL_MAX"
      [] OTHER                             -> "GL_FUNC_ADD"

\* the extensions applyBlendMode asks for; all present on the build modelled
GLAD_GL_EXT_blend_func_separate == TRUE
GLAD_GL_EXT_blend_minmax == TRUE
GLAD_GL_EXT_blend_subtract == TRUE
GLAD_GL_EXT_blend_equation_separate == TRUE

----------------------------------------------------------------------------
(* The program state as one record, and the GPU command log *)

Cur == [targets |-> targets, lastActiveId |-> lastActiveId,
        targetNextId |-> targetNextId, textureNextId |-> textureNextId,
        textures |-> textures,
        pipelineRefCount |-> pipelineRefCount, pipeline |-> pipeline,
        gl |-> gl, fbo |-> fbo, vbuf |-> vbuf,
        issued |-> <<>>, ret |-> TRUE, attempts |-> 0]

Commit(s, c) ==
    /\ targets' = s.targets
    /\ lastActiveId' = s.lastActiveId
    /\ targetNextId' = s.targetNextId
    /\ textureNextId' = s.textureNextId
    /\ textures' = s.textures
    /\ pipelineRefCount' = s.pipelineRefCount
    /\ pipeline' = s.pipeline
    /\ gl' = s.gl
    /\ fbo' = s.fbo
    /\ vbuf' = s.vbuf
    /\ issued' = s.issued
    /\ call' = c
    /\ lastDrawn' =
          IF c.op \in {"draw", "drawVertexBuffer"}
             /\ \E i \in DOMAIN s.issued : s.issued[i].cmd = "glDrawArrays"
             THEN [lastDrawn EXCEPT ![c.t] = [has |-> TRUE, mode |-> c.blendMode]]
             ELSE lastDrawn
    /\ UNCHANGED <<threads, mutexes, handed>>

\* one GPU command: its name, its arguments and the GL error it raises
Cmd(name, args) == [cmd |-> name, args |-> args]
Emit(s, name, args) == [s EXCEPT !.issued = Append(@, Cmd(name, args))]
Return(s, value) == [s EXCEPT !.ret = value]

----------------------------------------------------------------------------
(* OpenGL calls, as far as the code depends on their effect *)

\* glBindFramebuffer(GL_FRAMEBUFFER, name): binds the draw and the read target
glBindFramebuffer(s, name) ==
    Emit([s EXCEPT !.gl.drawFramebuffer = name, !.gl.readFramebuffer = name],
         "glBindFramebuffer", <<"GL_FRAMEBUFFER", name>>)

glBindVertexArray(s, name) ==
    Emit([s EXCEPT !.gl.vertexArray = name], "glBindVertexArray", <<name>>)

glBindBuffer(s, name) ==
    Emit([s EXCEPT !.gl.arrayBuffer = name], "glBindBuffer", <<"GL_ARRAY_BUFFER", name>>)

glBindTexture(s, name) ==
    Emit([s EXCEPT !.gl.texture2D = name], "glBindTexture", <<"GL_TEXTURE_2D", name>>)

glUseProgram(s, name) ==
    Emit([s EXCEPT !.gl.program = name], "glUseProgram", <<name>>)

\* glUniform1i / glUniformMatrix4fv write a uniform of the program in use;
\* with no program, or another one, in use the built-in program's uniforms
\* keep their values (GL_INVALID_OPERATION)
glUniform(s, location, value) ==
    Emit(IF s.gl.program = BuiltinProgram
            THEN [s EXCEPT !.gl.uniforms[location] = value]
            ELSE s,
         "glUniform", <<location, value>>)

\* glBufferSubData(GL_ARRAY_BUFFER, 0, size, data): GL_INVALID_VALUE, and no
\* change of the data store, when the range exceeds the store of the buffer
glBufferSubData(s, size, data) ==
    LET buf == s.gl.arrayBuffer IN
    IF buf = 0 \/ size > s.gl.buffers[buf].size
        THEN Emit(s, "glBufferSubData", <<0, size, data, "GL_INVALID_VALUE">>)
        ELSE Emit([s EXCEPT !.gl.buffers[buf].data = data,
                            !.gl.buffers[buf].filled = size],
                  "glBufferSubData", <<0, size, data, "GL_NO_ERROR">>)

\* glDrawArrays and glClear are logged with the GL state they execute in
glDrawArrays(s, mode, first, count) ==
    [s EXCEPT !.issued = Append(@, [cmd |-> "glDrawArrays",
                                    args |-> <<mode, first, count>>,
                                    at |-> s.gl])]

glClear(s) ==
    [s EXCEPT !.issued = Append(@, [cmd |-> "glClear",
                                    args |-> <<"GL_COLOR_BUFFER_BIT">>,
                                    at |-> s.gl])]

----------------------------------------------------------------------------
(* RenderTarget.cpp: ids and the active target *)

\* a faulty getUniqueId that hands out the counter without advancing it
getUniqueId_NoIncrement(s) ==
    [s EXCEPT !.ret = s.targetNextId]

\* getUniqueId (RenderTarget.cpp): return id++
getUniqueId(s) ==
    [s EXCEPT !.ret = s.targetNextId, !.targetNextId = @ + 1]

\* isActive
isActive(s, id) == s.lastActiveId = id

----------------------------------------------------------------------------
(* RenderTextureImplFBO.cpp *)

\* RenderTextureImplFBO::unbind
RenderTextureImplFBO_unbind(s) == glBindFramebuffer(s, 0)

\* the build modelled is the desktop one: the #ifndef SFML_OPENGL_ES branches
SFML_OPENGL_ES == FALSE
\* the extensions RenderTextureImplFBO::create asks for
GLAD_GL_EXT_framebuffer_multisample == TRUE
GLAD_GL_EXT_framebuffer_blit == TRUE
GLAD_GL_EXT_packed_depth_stencil == TRUE

\* what the GL context answers during one call: the names glGenFramebuffers
\* and glGenRenderbuffers return (0: generation failed) and the results of
\* glCheckFramebufferStatus
GenNames(alive) == {0} \cup ((1 .. MaxGlNames) \ alive)
NoEnv == [fb |-> 0, complete |-> FALSE, msfb |-> 0, mscomplete |-> FALSE,
          color |-> 0, depthStencil |-> 0, context |-> <<TRUE, TRUE>>]
FboEnvs(s) ==
    { e \in [fb : GenNames(s.gl.framebuffers), complete : BOOLEAN,
             msfb : GenNames(s.gl.framebuffers), mscomplete : BOOLEAN,
             color : GenNames(s.gl.renderbuffers),
             depthStencil : GenNames(s.gl.renderbuffers),
             context : {NoEnv.context}] :
        /\ (e.msfb = 0 \/ e.msfb # e.fb)
        /\ (e.depthStencil = 0 \/ e.depthStencil # e.color) }

glGenFramebuffer(s, name) ==
    Emit(IF name = 0 THEN s ELSE [s EXCEPT !.gl.framebuffers = @ \cup {name}],
         "glGenFramebuffers", <<name>>)

\* glDeleteFramebuffers: a deleted framebuffer that is bound is unbound
glDeleteFramebuffer(s, name) ==
    Emit([s EXCEPT !.gl.framebuffers = @ \ {name},
                   !.gl.fbColor[name] = <<"none", 0>>,
                   !.gl.drawFramebuffer = IF @ = name THEN 0 ELSE @,
                   !.gl.readFramebuffer = IF @ = name THEN 0 ELSE @],
         "glDeleteFramebuffers", <<name>>)

glGenRenderbuffer(s, name) ==
    Emit(IF name = 0 THEN s ELSE [s EXCEPT !.gl.renderbuffers = @ \cup {name}],
         "glGenRenderbuffers", <<name>>)

\* glFramebufferTexture2D / glFramebufferRenderbuffer on GL_COLOR_ATTACHMENT0
\* of the framebuffer bound to GL_FRAMEBUFFER
glFramebufferColor(s, kind, name) ==
    Emit(IF s.gl.drawFramebuffer = 0 THEN s
            ELSE [s EXCEPT !.gl.fbColor[s.gl.drawFramebuffer] = <<kind, name>>],
         "glFramebufferColor", <<kind, name>>)

\* RenderTextureImplFBO::createFrameBuffer
RenderTextureImplFBO_createFrameBuffer(s, env) ==
    \* the steps of the function, the last one first; each takes the state
    \* the step before it leaves
    LET depthStencil(x) ==
            Emit(x, "glFramebufferRenderbuffer", <<"depth/stencil", x.fbo.m_depthStencilBuffer>>)
        msChecked(x) ==
            IF ~env.mscomplete
                THEN Return(glDeleteFramebuffer(glBindFramebuffer(x, 0), env.msfb), FALSE)
                ELSE Return([x EXCEPT !.fbo.m_multisampleFrameBufferId = env.msfb], TRUE)
        msColor(x) ==
            msChecked(IF x.fbo.m_depthStencilBuffer # 0 THEN depthStencil(x) ELSE x)
        msBound(x) == msColor(glFramebufferColor(x, "renderbuffer", x.fbo.m_colorBuffer))
        msGenerated(x) ==
            IF env.msfb = 0 THEN Return(x, FALSE)
                            ELSE msBound(glBindFramebuffer(x, env.msfb))
        created(x) ==
            IF SFML_OPENGL_ES \/ ~x.fbo.m_multisample
                THEN Return(x, TRUE)
                ELSE msGenerated(glGenFramebuffer(x, env.msfb))
        checked(x) ==
            IF ~env.complete
                THEN Return(glDeleteFramebuffer(glBindFramebuffer(x, 0), env.fb), FALSE)
                ELSE created([x EXCEPT !.fbo.m_frameBufferId = env.fb])
        depth(x) == checked(glFramebufferColor(x, "texture", x.fbo.m_textureId))
        bound(x) ==
            depth(IF ~x.fbo.m_multisample /\ x.fbo.m_depthStencilBuffer # 0
                     THEN depthStencil(x) ELSE x)
        generated(x) ==
            IF env.fb = 0 THEN Return(x, FALSE)
                          ELSE bound(glBindFramebuffer(x, env.fb))
    IN generated(glGenFramebuffer(s, env.fb))

\* RenderTextureImplFBO::activate
RenderTextureImplFBO_activate(s, active, env) ==
    IF ~active
        THEN RenderTextureImplFBO_createFrameBuffer(glBindFramebuffer(s, 0), env)
    ELSE IF s.fbo.m_frameBufferId # 0
        THEN Return(glBindFramebuffer(s, s.fbo.m_frameBufferId), TRUE)
    ELSE RenderTextureImplFBO_createFrameBuffer(s, env)

\* glGetIntegerv(GL_MAX_SAMPLES, &samples)
GL_MAX_SAMPLES == MaxSamples

\* a faulty validation that does not compare the level with GL_MAX_SAMPLES
RenderTextureImplFBO_unsupported_NoSamples(settings) ==
    \/ (settings.antialiasingLevel # 0
           /\ ~(GLAD_GL_EXT_framebuffer_multisample /\ GLAD_GL_EXT_framebuffer_blit))
    \/ (settings.stencilBits # 0 /\ ~GLAD_GL_EXT_packed_depth_stencil)

\* RenderTextureImplFBO::create, the validation of the settings: the three
\* conditions under which it returns false before allocating anything
RenderTextureImplFBO_unsupported(settings) ==
    \/ (settings.antialiasingLevel # 0
           /\ ~(GLAD_GL_EXT_framebuffer_multisample /\ GLAD_GL_EXT_framebuffer_blit))
    \/ (settings.stencilBits # 0 /\ ~GLAD_GL_EXT_packed_depth_stencil)
    \/ (~SFML_OPENGL_ES /\ settings.antialiasingLevel # 0
           /\ settings.antialiasingLevel > GL_MAX_SAMPLES)

\* RenderTextureImplFBO::create
RenderTextureImplFBO_create(s, width, height, textureId, settings, env) ==
    LET aa == settings.antialiasingLevel
        \* one glGenRenderbuffers for the depth(/stencil) buffer; FALSE in
        \* .ret when it returns 0
        genDepth(x, stencil) ==
            IF env.depthStencil = 0
                THEN Return([glGenRenderbuffer(x, 0)
                                EXCEPT !.fbo.m_depthStencilBuffer = 0], FALSE)
                ELSE Return([glGenRenderbuffer(x, env.depthStencil)
                                EXCEPT !.fbo.m_depthStencilBuffer = env.depthStencil,
                                       !.fbo.m_stencil = IF stencil THEN TRUE ELSE @],
                            TRUE)
        multisampled(d) == IF d.ret THEN [d EXCEPT !.fbo.m_multisample = TRUE] ELSE d
        colored(c) ==
            multisampled(IF settings.stencilBits # 0 THEN genDepth(c, TRUE)
                         ELSE IF settings.depthBits # 0 THEN genDepth(c, FALSE)
                         ELSE Return(c, TRUE))
        buffers(x) ==
            IF aa = 0
                THEN IF settings.stencilBits # 0
                        THEN (IF SFML_OPENGL_ES THEN Return(x, FALSE)
                                                ELSE genDepth(x, TRUE))
                     ELSE IF settings.depthBits # 0 THEN genDepth(x, FALSE)
                     ELSE Return(x, TRUE)
            ELSE IF SFML_OPENGL_ES THEN Return(x, FALSE)
            ELSE IF env.color = 0
                THEN Return([glGenRenderbuffer(x, 0) EXCEPT !.fbo.m_colorBuffer = 0], FALSE)
            ELSE colored([glGenRenderbuffer(x, env.color)
                             EXCEPT !.fbo.m_colorBuffer = env.color])
        \* the bindings saved before createFrameBuffer are restored on success
        restored(f, readFramebuffer, drawFramebuffer) ==
            IF f.ret
                THEN Return(Emit([f EXCEPT !.gl.readFramebuffer = readFramebuffer,
                                           !.gl.drawFramebuffer = drawFramebuffer],
                                 "glBindFramebuffer",
                                 <<"restore", readFramebuffer, drawFramebuffer>>),
                            TRUE)
                ELSE Return(f, FALSE)
        framebuffer(b) ==
            IF ~b.ret THEN b
            ELSE restored(RenderTextureImplFBO_createFrameBuffer(
                              [b EXCEPT !.fbo.m_textureId = textureId], env),
                          b.gl.readFramebuffer, b.gl.drawFramebuffer)
        sized(x) ==
            IF RenderTextureImplFBO_unsupported(settings)
                THEN Return(x, FALSE)
                ELSE framebuffer(buffers(x))
    IN sized([s EXCEPT !.fbo.m_width = width, !.fbo.m_height = height])

----------------------------------------------------------------------------
(* setActive: RenderTarget, RenderWindow, RenderTexture *)

\* RenderTarget::setActive: drops the cache and reports success; it does not
\* write lastActiveId
RenderTarget_setActive(s, t, active) ==
    Return([s EXCEPT !.targets[t].m_cache.enable = FALSE], TRUE)

\* RenderWindow::setActive
RenderWindow_setActive(s, t, active) ==
    LET result(r) == IF active /\ r.ret THEN Return(RenderTextureImplFBO_unbind(r), TRUE)
                                        ELSE r
    IN result(RenderTarget_setActive(s, t, active))

\* RenderTexture::setActive: the context switch of the offscreen surface,
\* which the platform carries out or refuses (env.context holds its answers
\* to the attempts of one call of the library, in order), and the activation
\* of its framebuffer implementation
RenderTexture_setActive(s, t, active, env) ==
    LET activated(r) == IF r.ret THEN Return(RenderTarget_setActive(r, t, active), TRUE)
                                 ELSE r
        switched(x) ==
            IF env.context[x.attempts] THEN activated(RenderTextureImplFBO_activate(x, active, env))
                                       ELSE Return(x, FALSE)
    IN switched([s EXCEPT !.attempts = @ + 1])

\* the virtual call setActive(active) on target t
setActive(s, t, active, env) ==
    IF t \in Windows THEN RenderWindow_setActive(s, t, active)
                     ELSE RenderTexture_setActive(s, t, active, env)

----------------------------------------------------------------------------
(* SfmlRenderPipeline *)

\* static_cast<GLint> / static_cast<GLsizei> of a std::size_t: the value
\* itself for every count below 2^31, which covers the counts of the model
ToGLint(x) == x

\* the pipeline as its constructor leaves it
NewPipeline == [m_matProj |-> IdentityTransform, m_matModelView |-> IdentityTransform,
                m_shaderId |-> BuiltinProgram, m_vao |-> PipelineVao, m_vbo |-> PipelineVbo,
                m_cacheTextureId |-> 0, m_cacheTextureFlipped |-> FALSE,
                m_cacheTextureUse |-> FALSE]
NoPipeline == [m_shaderId |-> 0]

\* sf::Shader objects a caller passes in RenderStates: a linked program and
\* a shader that was never loaded
CustomProgram == 2
m_shaderProgram(shader) == IF shader = "customShader" THEN CustomProgram ELSE 0

\* Shader::bind
Shader_bind(s, shader) ==
    IF shader # NULL /\ m_shaderProgram(shader) # 0
        THEN glUseProgram(s, m_shaderProgram(shader))
        ELSE glUseProgram(s, 0)

\* Texture::bind
Texture_bind(s, texture) ==
    IF texture # NULL /\ s.textures[texture].m_texture # 0
        THEN glBindTexture(s, s.textures[texture].m_texture)
        ELSE glBindTexture(s, 0)

\* SfmlRenderPipeline::applyCurrentView
SfmlRenderPipeline_applyCurrentView(s, view) ==
    [s EXCEPT !.pipeline.m_matProj = ViewGetTransform(view)]

\* SfmlRenderPipeline::applyCurrentTransform
SfmlRenderPipeline_applyCurrentTransform(s, transform) ==
    [s EXCEPT !.pipeline.m_matModelView = transform]

\* a faulty preDraw that updates the flip cache without writing the uniform
SfmlRenderPipeline_preDraw_FlipCacheOnly(s, texture, shader) ==
    LET viewProj(x) ==
            glUniform(x, "aViewProj", <<x.pipeline.m_matProj, x.pipeline.m_matModelView>>)
        useTexture(x) ==
            IF ~x.pipeline.m_cacheTextureUse
                THEN [glUniform(x, "bUseTexture", TRUE) EXCEPT !.pipeline.m_cacheTextureUse = TRUE]
                ELSE x
        flipCache(x) ==
            IF x.textures[texture].m_pixelsFlipped # x.pipeline.m_cacheTextureFlipped
                THEN [x EXCEPT !.pipeline.m_cacheTextureFlipped =
                                   x.textures[texture].m_pixelsFlipped]
                ELSE x
        bindCached(x) ==
            IF x.gl.texture2D # x.pipeline.m_cacheTextureId
                THEN glUniform(glBindTexture(x, x.pipeline.m_cacheTextureId), "Texture0", 0)
                ELSE x
        texCache(x) ==
            IF x.pipeline.m_cacheTextureId # x.textures[texture].m_texture
                THEN bindCached([x EXCEPT !.pipeline.m_cacheTextureId =
                                              x.textures[texture].m_texture])
                ELSE x
        untextured(x) ==
            [(IF x.pipeline.m_cacheTextureUse
                 THEN [glUniform(x, "bUseTexture", FALSE)
                          EXCEPT !.pipeline.m_cacheTextureUse = FALSE]
                 ELSE x)
                EXCEPT !.pipeline.m_cacheTextureId = 0]
        builtin(x) ==
            viewProj(IF texture # NULL THEN useTexture(flipCache(texCache(x)))
                                       ELSE untextured(x))
    IN IF shader # NULL THEN Shader_bind(s, shader)
       ELSE builtin(IF s.gl.program # s.pipeline.m_shaderId
                       THEN glUseProgram(s, s.pipeline.m_shaderId) ELSE s)

\* SfmlRenderPipeline::preDraw
SfmlRenderPipeline_preDraw(s, texture, shader) ==
    LET viewProj(x) ==
            glUniform(x, "aViewProj", <<x.pipeline.m_matProj, x.pipeline.m_matModelView>>)
        useTexture(x) ==
            IF ~x.pipeline.m_cacheTextureUse
                THEN [glUniform(x, "bUseTexture", TRUE) EXCEPT !.pipeline.m_cacheTextureUse = TRUE]
                ELSE x
        flipCache(x) ==
            IF x.textures[texture].m_pixelsFlipped # x.pipeline.m_cacheTextureFlipped
                THEN [glUniform(x, "bTexFlip", x.textures[texture].m_pixelsFlipped)
                         EXCEPT !.pipeline.m_cacheTextureFlipped =
                                    x.textures[texture].m_pixelsFlipped]
                ELSE x
        bindCached(x) ==
            IF x.gl.texture2D # x.pipeline.m_cacheTextureId
                THEN glUniform(glBindTexture(x, x.pipeline.m_cacheTextureId), "Texture0", 0)
                ELSE x
        texCache(x) ==
            IF x.pipeline.m_cacheTextureId # x.textures[texture].m_texture
                THEN bindCached([x EXCEPT !.pipeline.m_cacheTextureId =
                                              x.textures[texture].m_texture])
                ELSE x
        untextured(x) ==
            [(IF x.pipeline.m_cacheTextureUse
                 THEN [glUniform(x, "bUseTexture", FALSE)
                          EXCEPT !.pipeline.m_cacheTextureUse = FALSE]
                 ELSE x)
                EXCEPT !.pipeline.m_cacheTextureId = 0]
        builtin(x) ==
            viewProj(IF texture # NULL THEN useTexture(flipCache(texCache(x)))
                                       ELSE untextured(x))
    IN IF shader # NULL THEN Shader_bind(s, shader)
       ELSE builtin(IF s.gl.program # s.pipeline.m_shaderId
                       THEN glUseProgram(s, s.pipeline.m_shaderId) ELSE s)

\* a faulty postDraw that leaves the shader of the caller in use
SfmlRenderPipeline_postDraw_KeepsShader(s, texture, shader) ==
    IF texture # NULL /\ s.textures[texture].m_fboAttachment
        THEN Texture_bind(s, NULL) ELSE s

\* SfmlRenderPipeline::postDraw
SfmlRenderPipeline_postDraw(s, texture, shader) ==
    LET unbindShader(x) == IF shader # NULL THEN Shader_bind(x, NULL) ELSE x
    IN unbindShader(IF texture # NULL /\ s.textures[texture].m_fboAttachment
                       THEN Texture_bind(s, NULL) ELSE s)

\* SfmlRenderPipeline::drawPrimitives
SfmlRenderPipeline_drawPrimitives(s, type, firstVertex, vertexCount) ==
    LET modes == <<"GL_POINTS", "GL_LINES", "GL_LINE_STRIP", "GL_TRIANGLES",
                   "GL_TRIANGLE_STRIP", "GL_TRIANGLE_FAN", "GL_QUADS">>
    IN glDrawArrays(s, modes[type + 1], ToGLint(firstVertex), ToGLint(vertexCount))

\* SfmlRenderPipeline::drawVertices
SfmlRenderPipeline_drawVertices(s, vertices, type, firstVertex, vertexCount, texture, shader) ==
    LET vertexArray(x) == IF x.gl.vertexArray # x.pipeline.m_vao
                             THEN glBindVertexArray(x, x.pipeline.m_vao) ELSE x
        vertexBuffer(x) == IF x.gl.arrayBuffer # x.pipeline.m_vbo
                              THEN glBindBuffer(x, x.pipeline.m_vbo) ELSE x
    IN SfmlRenderPipeline_postDraw(
           SfmlRenderPipeline_drawPrimitives(
               glBufferSubData(
                   vertexBuffer(vertexArray(SfmlRenderPipeline_preDraw(s, texture, shader))),
                   vertexCount * SizeofVertex, vertices),
               type, firstVertex, vertexCount),
           texture, shader)

\* VertexBuffer::bind
VertexBuffer_bind(s, vertexBuffer) ==
    glBindVertexArray(s, IF vertexBuffer # NULL THEN s.vbuf.m_vao ELSE 0)

\* SfmlRenderPipeline::drawVertexBuffer
SfmlRenderPipeline_drawVertexBuffer(s, firstVertex, vertexCount, texture, shader) ==
    LET primitives(x) ==
            SfmlRenderPipeline_drawPrimitives(x, x.vbuf.m_primitiveType,
                                              firstVertex, vertexCount)
    IN SfmlRenderPipeline_postDraw(
           VertexBuffer_bind(
               primitives(VertexBuffer_bind(SfmlRenderPipeline_preDraw(s, texture, shader),
                                            "vbuf")),
               NULL),
           texture, shader)

\* pipelineCreate: the constructor leaves m_vbo bound to GL_ARRAY_BUFFER and
\* allocates MAX_VERTEX vertices for it
pipelineCreate(s) ==
    IF s.pipelineRefCount = 0
        THEN [s EXCEPT !.pipelineRefCount = @ + 1,
                       !.pipeline = NewPipeline,
                       !.gl.vertexArray = 0,
                       !.gl.arrayBuffer = PipelineVbo,
                       !.gl.buffers[PipelineVbo] =
                           [size |-> SizeofVertex * MAX_VERTEX, data |-> NULL, filled |-> 0]]
        ELSE [s EXCEPT !.pipelineRefCount = @ + 1]

\* a faulty pipelineDestroy that only counts and never deletes the pipeline
pipelineDestroy_NoDelete(s) == [s EXCEPT !.pipelineRefCount = @ - 1]

\* pipelineDestroy: the destructor unbinds and deletes m_vbo and m_vao
pipelineDestroy(s) ==
    IF s.pipelineRefCount - 1 = 0
        THEN [s EXCEPT !.pipelineRefCount = @ - 1,
                       !.pipeline = NoPipeline,
                       !.gl.vertexArray = 0,
                       !.gl.arrayBuffer = 0,
                       !.gl.buffers[PipelineVbo] = [size |-> 0, data |-> NULL, filled |-> 0]]
        ELSE [s EXCEPT !.pipelineRefCount = @ - 1]

----------------------------------------------------------------------------
(* RenderTarget *)

\* a RenderTarget as its constructor leaves it: m_cache() value-initialized,
\* m_id 0, both views default constructed
NewTarget(size) ==
    [alive |-> TRUE, m_id |-> 0, m_size |-> size,
     m_defaultView |-> DefaultConstructedView, m_view |-> DefaultConstructedView,
     m_cache |-> [enable |-> FALSE, glStatesSet |-> FALSE, viewChanged |-> FALSE,
                  lastBlendMode |-> BlendAlpha]]
NoTarget ==
    [alive |-> FALSE, m_id |-> 0, m_size |-> <<0, 0>>,
     m_defaultView |-> DefaultConstructedView, m_view |-> DefaultConstructedView,
     m_cache |-> [enable |-> FALSE, glStatesSet |-> FALSE, viewChanged |-> FALSE,
                  lastBlendMode |-> BlendAlpha]]

\* RenderTarget::RenderTarget
RenderTarget_ctor(s, t, size) ==
    pipelineCreate([s EXCEPT !.targets[t] = NewTarget(size)])

\* RenderTarget::~RenderTarget
RenderTarget_dtor(s, t) ==
    pipelineDestroy([s EXCEPT !.targets[t] = NoTarget])

\* RenderTarget::initialize
RenderTarget_initialize(s, t) ==
    LET assigned(x) == [x EXCEPT !.targets[t].m_id = x.ret]
        reset(view) == [s EXCEPT !.targets[t].m_defaultView = view,
                                 !.targets[t].m_view = view,
                                 !.targets[t].m_cache.glStatesSet = FALSE]
    IN assigned(getUniqueId(reset(ViewOfRect(0, 0, s.targets[t].m_size[1],
                                             s.targets[t].m_size[2]))))

\* a faulty setView that does not mark the view as changed
RenderTarget_setView_NotDirty(s, t, view) ==
    [s EXCEPT !.targets[t].m_view = view]

\* RenderTarget::setView
RenderTarget_setView(s, t, view) ==
    [s EXCEPT !.targets[t].m_view = view, !.targets[t].m_cache.viewChanged = TRUE]

\* RenderTarget::getViewport: static_cast<int>(0.5f + size * fraction), the
\* fraction given in quarters
\* static_cast<int> of the quotient a / b of a float: the fraction is cut off,
\* towards zero
TruncDiv(a, b) == IF a >= 0 THEN a \div b ELSE -((-a) \div b)

\* a faulty getViewport that adds no 0.5 before the truncation
RenderTarget_getViewport_NoRounding(s, t, view) ==
    LET width == s.targets[t].m_size[1]
        height == s.targets[t].m_size[2]
        viewport == view.viewport
    IN <<TruncDiv(width * viewport[1], 4),
         TruncDiv(height * viewport[2], 4),
         TruncDiv(width * viewport[3], 4),
         TruncDiv(height * viewport[4], 4)>>

\* RenderTarget::getViewport: static_cast<int>(0.5f + size * viewport), the
\* viewport being given in quarters
RenderTarget_getViewport(s, t, view) ==
    LET width == s.targets[t].m_size[1]
        height == s.targets[t].m_size[2]
        viewport == view.viewport
    IN <<TruncDiv(2 + width * viewport[1], 4),
         TruncDiv(2 + height * viewport[2], 4),
         TruncDiv(2 + width * viewport[3], 4),
         TruncDiv(2 + height * viewport[4], 4)>>

\* RenderTarget::applyCurrentView
RenderTarget_applyCurrentView(s, t) ==
    LET viewportOf(rect) ==
            [SfmlRenderPipeline_applyCurrentView(
                 Emit([s EXCEPT !.gl.viewport = rect], "glViewport", rect),
                 s.targets[t].m_view)
                EXCEPT !.targets[t].m_cache.viewChanged = FALSE]
        fromTop(viewport) ==
            viewportOf(<<viewport[1],
                         s.targets[t].m_size[2] - (viewport[2] + viewport[4]),
                         viewport[3], viewport[4]>>)
    IN fromTop(RenderTarget_getViewport(s, t, s.targets[t].m_view))

\* a faulty applyBlendMode that configures the GPU and forgets to record the
\* mode in the cache
RenderTarget_applyBlendMode_NoCache(s, t, mode) ==
    LET func == <<factorToGlConstant(mode.colorSrcFactor),
                  factorToGlConstant(mode.colorDstFactor),
                  factorToGlConstant(mode.alphaSrcFactor),
                  factorToGlConstant(mode.alphaDstFactor)>>
        equation == <<equationToGlConstant(mode.colorEquation),
                      equationToGlConstant(mode.alphaEquation)>>
    IN Emit(Emit([s EXCEPT !.gl.blendFunc = func, !.gl.blendEquation = equation],
                 "glBlendFunc", func),
            "glBlendEquation", equation)

\* RenderTarget::applyBlendMode
RenderTarget_applyBlendMode(s, t, mode) ==
    LET func == IF GLAD_GL_EXT_blend_func_separate
                   THEN <<factorToGlConstant(mode.colorSrcFactor),
                          factorToGlConstant(mode.colorDstFactor),
                          factorToGlConstant(mode.alphaSrcFactor),
                          factorToGlConstant(mode.alphaDstFactor)>>
                   ELSE <<factorToGlConstant(mode.colorSrcFactor),
                          factorToGlConstant(mode.colorDstFactor),
                          factorToGlConstant(mode.colorSrcFactor),
                          factorToGlConstant(mode.colorDstFactor)>>
        equation == IF GLAD_GL_EXT_blend_equation_separate
                       THEN <<equationToGlConstant(mode.colorEquation),
                              equationToGlConstant(mode.alphaEquation)>>
                       ELSE <<equationToGlConstant(mode.colorEquation),
                              equationToGlConstant(mode.colorEquation)>>
        blendEquation(x) ==
            IF GLAD_GL_EXT_blend_minmax /\ GLAD_GL_EXT_blend_subtract
                THEN Emit([x EXCEPT !.gl.blendEquation = equation],
                          "glBlendEquation", equation)
                ELSE x
    IN [blendEquation(Emit([s EXCEPT !.gl.blendFunc = func], "glBlendFunc", func))
           EXCEPT !.targets[t].m_cache.lastBlendMode = mode]

\* RenderTarget::applyTransform
RenderTarget_applyTransform(s, transform) ==
    SfmlRenderPipeline_applyCurrentTransform(s, transform)

\* the condition  isActive(m_id) || setActive(true)  of clear, draw and
\* resetGLStates: setActive runs only when the target is not the active one
ActiveOrSetActive(s, t, env) ==
    IF isActive(s, s.targets[t].m_id) THEN Return(s, TRUE)
                                      ELSE setActive(s, t, TRUE, env)

\* a faulty resetGLStates that does not set the view again
RenderTarget_resetGLStates_NoView(s, t, env) ==
    LET defaults(x) ==
            Emit(Emit(Emit([x EXCEPT !.gl.enabled = (@ \ {"GL_CULL_FACE", "GL_DEPTH_TEST"})
                                                        \cup {"GL_BLEND"}],
                           "glDisable", <<"GL_CULL_FACE">>),
                      "glDisable", <<"GL_DEPTH_TEST">>),
                 "glEnable", <<"GL_BLEND">>)
        activated(a) ==
            IF ~a.ret THEN a
            ELSE [VertexBuffer_bind(
                      RenderTarget_applyBlendMode(
                          [defaults(a) EXCEPT !.targets[t].m_cache.glStatesSet = TRUE],
                          t, BlendAlpha),
                      NULL)
                     EXCEPT !.targets[t].m_cache.enable = TRUE]
    IN activated(ActiveOrSetActive(s, t, env))

\* RenderTarget::resetGLStates
RenderTarget_resetGLStates(s, t, env) ==
    LET defaults(x) ==
            Emit(Emit(Emit([x EXCEPT !.gl.enabled = (@ \ {"GL_CULL_FACE", "GL_DEPTH_TEST"})
                                                        \cup {"GL_BLEND"}],
                           "glDisable", <<"GL_CULL_FACE">>),
                      "glDisable", <<"GL_DEPTH_TEST">>),
                 "glEnable", <<"GL_BLEND">>)
        resetView(x) == RenderTarget_setView(x, t, x.targets[t].m_view)
        activated(a) ==
            IF ~a.ret THEN a
            ELSE [resetView(
                      VertexBuffer_bind(
                          RenderTarget_applyBlendMode(
                              [defaults(a) EXCEPT !.targets[t].m_cache.glStatesSet = TRUE],
                              t, BlendAlpha),
                          NULL))
                     EXCEPT !.targets[t].m_cache.enable = TRUE]
    IN activated(ActiveOrSetActive(s, t, env))

\* RenderTarget::setupDraw
RenderTarget_setupDraw(s, t, states, env) ==
    LET blendMode(x) ==
            IF ~x.targets[t].m_cache.enable
               \/ states.blendMode # x.targets[t].m_cache.lastBlendMode
                THEN RenderTarget_applyBlendMode(x, t, states.blendMode) ELSE x
        view(x) ==
            blendMode(IF ~x.targets[t].m_cache.enable \/ x.targets[t].m_cache.viewChanged
                         THEN RenderTarget_applyCurrentView(x, t) ELSE x)
    IN view(RenderTarget_applyTransform(
                IF ~s.targets[t].m_cache.glStatesSet
                    THEN RenderTarget_resetGLStates(s, t, env) ELSE s,
                states.transform))

\* RenderTarget::cleanupDraw
RenderTarget_cleanupDraw(s, t, states) ==
    [s EXCEPT !.targets[t].m_cache.enable = TRUE]

\* RenderTarget::clear
\* a faulty clear that does not look at what setActive returns
RenderTarget_clear_Unchecked(s, t, color, env) ==
    LET activated(a) ==
            glClear(Emit([a EXCEPT !.lastActiveId = a.targets[t].m_id,
                                   !.gl.clearColor = color],
                         "glClearColor", <<color>>))
    IN activated(ActiveOrSetActive(s, t, env))

RenderTarget_clear(s, t, color, env) ==
    LET activated(a) ==
            IF ~a.ret THEN a
            ELSE glClear(Emit([a EXCEPT !.lastActiveId = a.targets[t].m_id,
                                        !.gl.clearColor = color],
                              "glClearColor", <<color>>))
    IN activated(ActiveOrSetActive(s, t, env))

\* a faulty draw without the check for nothing to draw
RenderTarget_draw_NoEarlyReturn(s, t, vertices, vertexCount, type, states, env) ==
    LET activated(a) ==
            IF ~a.ret THEN a
            ELSE RenderTarget_cleanupDraw(
                     SfmlRenderPipeline_drawVertices(
                         RenderTarget_setupDraw(a, t, states, env),
                         vertices, type, 0, vertexCount, states.texture, states.shader),
                     t, states)
    IN activated(ActiveOrSetActive(s, t, env))

\* RenderTarget::draw(const Vertex*, std::size_t, PrimitiveType, const RenderStates&)
RenderTarget_draw(s, t, vertices, vertexCount, type, states, env) ==
    LET activated(a) ==
            IF ~a.ret THEN a
            ELSE RenderTarget_cleanupDraw(
                     SfmlRenderPipeline_drawVertices(
                         RenderTarget_setupDraw(a, t, states, env),
                         vertices, type, 0, vertexCount, states.texture, states.shader),
                     t, states)
    IN IF vertices = NULL \/ vertexCount = 0 THEN s
       ELSE activated(ActiveOrSetActive(s, t, env))

\* std::min
Min(a, b) == IF a < b THEN a ELSE b

\* a faulty draw of a vertex buffer that does not clamp the count
RenderTarget_drawVertexBuffer_NoClamp(s, t, firstVertex, vertexCount, states, env) ==
    LET activated(a) ==
            IF ~a.ret THEN a
            ELSE RenderTarget_cleanupDraw(
                     SfmlRenderPipeline_drawVertexBuffer(
                         RenderTarget_setupDraw(a, t, states, env),
                         firstVertex, vertexCount, states.texture, states.shader),
                     t, states)
    IN IF firstVertex > s.vbuf.m_size \/ vertexCount = 0 THEN s
       ELSE activated(ActiveOrSetActive(s, t, env))

\* RenderTarget::draw(const VertexBuffer&, std::size_t, std::size_t, const RenderStates&)
RenderTarget_drawVertexBuffer(s, t, firstVertex, vertexCount, states, env) ==
    LET activated(a, count) ==
            IF ~a.ret THEN a
            ELSE RenderTarget_cleanupDraw(
                     SfmlRenderPipeline_drawVertexBuffer(
                         RenderTarget_setupDraw(a, t, states, env),
                         firstVertex, count, states.texture, states.shader),
                     t, states)
        clamped(count) ==
            IF count = 0 THEN s
            ELSE activated(ActiveOrSetActive(s, t, env), count)
    IN IF firstVertex > s.vbuf.m_size THEN s
       ELSE clamped(Min(vertexCount, s.vbuf.m_size - firstVertex))

----------------------------------------------------------------------------
(* Initial states *)

\* the GL context when the process starts using it
InitGL ==
    [enabled |-> {},
     blendFunc |-> <<"GL_ONE", "GL_ZERO", "GL_ONE", "GL_ZERO">>,
     blendEquation |-> <<"GL_FUNC_ADD", "GL_FUNC_ADD">>,
     viewport |-> <<0, 0, WindowWidth, WindowHeight>>,
     clearColor |-> "Transparent",
     drawFramebuffer |-> 0, readFramebuffer |-> 0,
     program |-> 0, texture2D |-> 0, vertexArray |-> 0, arrayBuffer |-> 0,
     uniforms |-> [Texture0 |-> 0, bTexFlip |-> FALSE, bUseTexture |-> FALSE,
                   aViewProj |-> <<IdentityTransform, IdentityTransform>>],
     buffers |-> [b \in {PipelineVbo, CallerVbo} |->
                     [size |-> 0, data |-> NULL, filled |-> 0]],
     framebuffers |-> {}, renderbuffers |-> {}, textures |-> {},
     ARB_texture_non_power_of_two |-> TRUE,
     fbColor |-> [n \in 1 .. MaxGlNames |-> <<"none", 0>>]]

\* RenderTextureImplFBO::RenderTextureImplFBO
NewFbo ==
    [m_frameBufferId |-> 0, m_multisampleFrameBufferId |-> 0,
     m_depthStencilBuffer |-> 0, m_colorBuffer |-> 0,
     m_width |-> 0, m_height |-> 0, m_textureId |-> 0,
     m_multisample |-> FALSE, m_stencil |-> FALSE]

\* sf::VertexBuffer::VertexBuffer(): Points is primitive type 0
NewVertexBuffer == [m_vao |-> 0, m_vbo |-> 0, m_size |-> 0, m_primitiveType |-> 0]

TextureNames == {"tx1", "tx2"}
NoTexture ==
    [alive |-> FALSE, m_size |-> <<0, 0>>, m_actualSize |-> <<0, 0>>, m_texture |-> 0,
     m_isSmooth |-> FALSE, m_sRgb |-> FALSE, m_isRepeated |-> FALSE,
     m_pixelsFlipped |-> FALSE, m_fboAttachment |-> FALSE, m_hasMipmap |-> FALSE,
     m_cacheId |-> 0]

\* the process before any object of the library exists
Start ==
    [targets |-> [t \in Targets |-> NoTarget],
     lastActiveId |-> 0, targetNextId |-> 1, textureNextId |-> 1,
     textures |-> [x \in TextureNames |-> NoTexture],
     pipelineRefCount |-> 0, pipeline |-> NoPipeline,
     gl |-> InitGL, fbo |-> NewFbo, vbuf |-> NewVertexBuffer,
     issued |-> <<>>, ret |-> TRUE, attempts |-> 0]

\* RenderWindow::RenderWindow(w, h)
RenderWindow_ctor(s, t, w, h) == RenderTarget_ctor(s, t, <<w, h>>)

\* sf::ContextSettings(): no depth, no stencil, no antialiasing
NoSettings == [depthBits |-> 0, stencilBits |-> 0, antialiasingLevel |-> 0]

\* the operation of the last step and its arguments
NoCall == [op |-> "none", t |-> NULL, vertices |-> NULL, count |-> 0, first |-> 0,
           blendMode |-> BlendAlpha, active |-> FALSE, ret |-> TRUE,
           settings |-> NoSettings, returns |-> TRUE,
           width |-> 0, height |-> 0, pixels |-> NULL, source |-> NULL,
           area |-> [left |-> 0, top |-> 0, width |-> 0, height |-> 0],
           view |-> DefaultConstructedView, point |-> <<0, 0>>, activated |-> TRUE,
           texture |-> NULL, shader |-> NULL, coords |-> <<0, 0>>,
           copyBuffer |-> FALSE]

\* two windows constructed on the same GL context, none initialized yet
WindowsConstructed ==
    RenderWindow_ctor(RenderWindow_ctor(Start, "w1", WindowWidth, WindowHeight),
                      "w2", WindowWidth, WindowHeight)

InitFrom(s) ==
    /\ targets = s.targets
    /\ lastActiveId = s.lastActiveId
    /\ targetNextId = s.targetNextId
    /\ textureNextId = s.textureNextId
    /\ textures = s.textures
    /\ pipelineRefCount = s.pipelineRefCount
    /\ pipeline = s.pipeline
    /\ gl = s.gl
    /\ fbo = s.fbo
    /\ vbuf = s.vbuf
    /\ issued = <<>>
    /\ call = NoCall
    /\ lastDrawn = [t \in Targets |-> [has |-> FALSE, mode |-> BlendAlpha]]
    /\ threads = [th \in Threads |-> [pc |-> "idle", counter |-> "target", id |-> 0]]
    /\ mutexes = [target |-> NULL, texture |-> NULL]
    /\ handed = [target |-> <<>>, texture |-> <<>>]

Init == InitFrom(WindowsConstructed)

----------------------------------------------------------------------------
(* Operations of the caller.  A target is used once it is initialized, as   *)
(* in the example: construction, onCreate, then setView / clear / draw.     *)

\* the RenderStates a caller draws with: default transform, no texture, no
\* shader, the given blend mode
RenderStates(blendMode) ==
    [transform |-> IdentityTransform, blendMode |-> blendMode,
     texture |-> NULL, shader |-> NULL]

\* sf::Triangles
Triangles == 3

CallOf(op, t) == [NoCall EXCEPT !.op = op, !.t = t]

Usable(t) == targets[t].alive /\ targets[t].m_id # 0

\* RenderWindow::onCreate
OnCreate(t) ==
    /\ targets[t].alive
    /\ targets[t].m_id = 0
    /\ targetNextId <= MaxIds
    /\ Commit(RenderTarget_initialize(Cur, t), CallOf("onCreate", t))

\* RenderTarget::clear
Clear(t) ==
    /\ Usable(t)
    /\ Commit(RenderTarget_clear(Cur, t, "Black", NoEnv), CallOf("clear", t))

\* RenderTarget::setView with one of `views`
SetView(t, views) ==
    /\ Usable(t)
    /\ \E view \in views :
          Commit(RenderTarget_setView(Cur, t, view), CallOf("setView", t))

\* RenderTarget::draw(vertices, vertexCount, type, states) with the vertex
\* pointer, the count and the blend mode taken from `inputs`
Draw(t, inputs) ==
    /\ Usable(t)
    /\ \E in \in inputs :
          Commit(RenderTarget_draw(Cur, t, in.vertices, in.count, Triangles,
                                   RenderStates(in.blendMode), NoEnv),
                 [CallOf("draw", t) EXCEPT !.vertices = in.vertices, !.count = in.count,
                                           !.blendMode = in.blendMode])

\* setActive(active), called by the user
SetActive(t) ==
    /\ Usable(t)
    /\ \E active \in BOOLEAN :
          LET done(r) == Commit(r, [CallOf("setActive", t) EXCEPT !.active = active,
                                                                  !.ret = r.ret])
          IN done(setActive(Cur, t, active, NoEnv))

\* RenderTarget::resetGLStates, called by the user (pushGLStates is the same
\* call)
ResetGLStates(t) ==
    /\ Usable(t)
    /\ Commit(RenderTarget_resetGLStates(Cur, t, NoEnv), CallOf("resetGLStates", t))

\* RenderWindow::onCreate called again on an initialized window
ReCreate(t) ==
    /\ Usable(t)
    /\ targetNextId <= MaxIds
    /\ Commit(RenderTarget_initialize(Cur, t), CallOf("onCreate", t))

----------------------------------------------------------------------------
(* Spec: two windows on one GL context, any view and any blend mode *)

DrawInputs == [vertices : {"va"}, count : {3}, blendMode : BlendModes]

Next ==
    \E t \in Windows :
        \/ OnCreate(t)
        \/ Clear(t)
        \/ SetView(t, Views)
        \/ Draw(t, DrawInputs)
        \/ SetActive(t)

Spec == Init /\ [][Next]_vars

----------------------------------------------------------------------------
(* What a step issued *)

\* the positions in `issued` of the draw commands, of the clear commands and
\* of the blend-mode configuration (one glBlendFunc[Separate] per application)
DrawCmds == {i \in DOMAIN issued : issued[i].cmd = "glDrawArrays"}
ClearCmds == {i \in DOMAIN issued : issued[i].cmd = "glClear"}
BlendCmdsOf(log) == {i \in DOMAIN log : log[i].cmd = "glBlendFunc"}

\* the draw of the last step went through to the GPU
Drew == call.op = "draw" /\ DrawCmds # {}

\* the GL blend configuration that renders with the given sf::BlendMode
GlBlendFuncFor(mode) ==
    CASE mode = BlendAlpha -> <<"GL_SRC_ALPHA", "GL_ONE_MINUS_SRC_ALPHA",
                                "GL_ONE", "GL_ONE_MINUS_SRC_ALPHA">>
      [] mode = BlendAdd   -> <<"GL_SRC_ALPHA", "GL_ONE", "GL_ONE", "GL_ONE">>
      [] mode = BlendNone  -> <<"GL_ONE", "GL_ZERO", "GL_ONE", "GL_ZERO">>

\* the rectangle glViewport must hold for a view on a window of the example's
\* size: getViewport(view) with the top edge counted from the bottom
GlViewportFor(view) ==
    CASE view.viewport = <<0, 0, 4, 4>> -> <<0, 0, WindowWidth, WindowHeight>>
      [] view.viewport = <<0, 2, 2, 2>> -> <<0, 0, WindowWidth \div 2, WindowHeight \div 2>>

----------------------------------------------------------------------------
(* Claims checked under Spec *)

\* C1: at the moment a draw command is issued for a target, the blend
\* configuration of the GPU is the one of the blend mode of that draw's
\* RenderStates, whatever the other target drew before.
C1_DrawUsesItsBlendMode ==
    call.op = "draw" =>
        \A i \in DrawCmds :
            /\ issued[i].at.blendFunc = GlBlendFuncFor(call.blendMode)
            /\ issued[i].at.blendEquation = <<"GL_FUNC_ADD", "GL_FUNC_ADD">>

\* C2: at the moment a draw command is issued for target T, the GL viewport
\* is the viewport of T's current view and the projection uploaded by the
\* pipeline is the transform of T's current view.
C2_DrawUsesItsView ==
    call.op = "draw" =>
        \A i \in DrawCmds :
            /\ issued[i].at.viewport = GlViewportFor(targets[call.t].m_view)
            /\ issued[i].at.uniforms.aViewProj[1] = ViewGetTransform(targets[call.t].m_view)

----------------------------------------------------------------------------
(* SpecOne: one window, every operation of RenderTarget on it, including     *)
(* draws of nothing, resetGLStates and a repeated onCreate                   *)

InitOne == InitFrom(RenderWindow_ctor(Start, "w1", WindowWidth, WindowHeight))

DrawInputsOne ==
    DrawInputs \cup {[vertices |-> NULL, count |-> 3, blendMode |-> BlendAdd],
                     [vertices |-> "va", count |-> 0, blendMode |-> BlendAdd],
                     [vertices |-> NULL, count |-> 0, blendMode |-> BlendNone]}

NextOne ==
    \/ OnCreate("w1")
    \/ ReCreate("w1")
    \/ Clear("w1")
    \/ SetView("w1", Views)
    \/ Draw("w1", DrawInputsOne)
    \/ SetActive("w1")
    \/ ResetGLStates("w1")

SpecOne == InitOne /\ [][NextOne]_vars

\* C3: a draw that follows a draw on the same target with the same blend
\* mode issues no blend-mode configuration (the configuration of a run of
\* equal-mode draws is issued during the first draw only).
C3_RepeatedDrawSkipsBlend ==
    [][(/\ Drew
        /\ call'.op = "draw" /\ call'.vertices # NULL /\ call'.count > 0
        /\ call'.t = call.t
        /\ call'.blendMode = call.blendMode)
       => BlendCmdsOf(issued') = {}]_vars

\* C4 as claimed: on a target that has executed a draw, a draw whose blend
\* mode differs from the one of the previous draw issues the blend-mode
\* configuration exactly once and leaves it as the cached blend mode.
C4_ChangedBlendIssuedOnce_Claimed ==
    [][(/\ call'.op = "draw" /\ call'.vertices # NULL /\ call'.count > 0
        /\ lastDrawn[call'.t].has
        /\ call'.blendMode # lastDrawn[call'.t].mode)
       => /\ Cardinality(BlendCmdsOf(issued')) = 1
          /\ targets'[call'.t].m_cache.lastBlendMode = call'.blendMode]_vars

\* C4 amended: on a target whose GPU defaults are applied (states-set flag
\* true), a draw whose blend mode differs from the cached last-applied blend
\* mode issues the blend-mode configuration exactly once and leaves it as the
\* cached blend mode.
C4_ChangedBlendIssuedOnce ==
    [][(/\ call'.op = "draw" /\ call'.vertices # NULL /\ call'.count > 0
        /\ targets[call'.t].m_cache.glStatesSet
        /\ call'.blendMode # targets[call'.t].m_cache.lastBlendMode)
       => /\ Cardinality(BlendCmdsOf(issued')) = 1
          /\ targets'[call'.t].m_cache.lastBlendMode = call'.blendMode]_vars

\* C4 witness: a draw with a warm cache (target active, cache enabled) that
\* changed the blend mode of the previous draw and issued it once
C4_Witness ==
    /\ Drew
    /\ Cardinality(BlendCmdsOf(issued)) = 1
    /\ lastActiveId = targets[call.t].m_id
    /\ ~ \E i \in DOMAIN issued : issued[i].cmd = "glBindFramebuffer"
    /\ targets[call.t].m_cache.lastBlendMode = BlendAdd

\* C5: after setActive(true) returned true on an initialized target, that
\* target is the active one: lastActiveId is its id.
C5_SetActiveMakesActive ==
    (call.op = "setActive" /\ call.active /\ call.ret)
        => isActive(Cur, targets[call.t].m_id)

\* C7: draw with a null vertex pointer or a count of 0 changes no target, not
\* the last active id, not the pipeline, not the GL state, and issues no GPU
\* command.
C7_DrawNothingIsNoOp ==
    [][(call'.op = "draw" /\ (call'.vertices = NULL \/ call'.count = 0))
       => /\ UNCHANGED <<targets, lastActiveId, pipeline, gl, fbo, vbuf>>
          /\ issued' = <<>>]_vars

\* C7 witness: a draw of nothing on a target that has drawn before and holds
\* a warm cache
C7_Witness ==
    /\ call.op = "draw" /\ (call.vertices = NULL \/ call.count = 0)
    /\ targets[call.t].m_cache.glStatesSet
    /\ targets[call.t].m_cache.enable
    /\ lastActiveId = targets[call.t].m_id

----------------------------------------------------------------------------
(* SpecFbo: the window and one RenderTextureImplFBO, the framebuffer object *)
(* behind an offscreen target, on the same GL context                       *)

\* the GL name of the texture the offscreen surface renders to
FboTexture == 1

\* the window constructed and the offscreen surface created: its
\* RenderTextureImplFBO::create succeeded with framebuffer object 1
FboCreated ==
    RenderTextureImplFBO_create(RenderWindow_ctor(Start, "w1", WindowWidth, WindowHeight),
                                WindowWidth, WindowHeight, FboTexture,
                                NoSettings,
                                [NoEnv EXCEPT !.fb = 1, !.complete = TRUE])

InitFbo == InitFrom(FboCreated)

\* RenderTextureImplFBO::activate on a created object
FboActivate ==
    /\ fbo.m_frameBufferId # 0
    /\ \E active \in BOOLEAN, env \in FboEnvs(Cur) :
          LET done(r) == Commit(r, [CallOf("fboActivate", NULL) EXCEPT !.active = active,
                                                                       !.ret = r.ret])
          IN done(RenderTextureImplFBO_activate(Cur, active, env))

DrawInputsFbo == [vertices : {"va"}, count : {3}, blendMode : {BlendAlpha, BlendAdd}]

NextFbo ==
    \/ OnCreate("w1")
    \/ Clear("w1")
    \/ Draw("w1", DrawInputsFbo)
    \/ SetActive("w1")
    \/ FboActivate

SpecFbo == InitFbo /\ [][NextFbo]_vars

\* C6: every clear and every draw command issued on the window executes with
\* framebuffer 0 bound, whatever was done with the offscreen framebuffer
\* before.
C6_WindowDrawsToFramebuffer0 ==
    (call.t = "w1" /\ call.op \in {"clear", "draw"})
        => \A i \in DrawCmds \cup ClearCmds : issued[i].at.drawFramebuffer = 0

----------------------------------------------------------------------------
(* SpecVB: one window and one sf::VertexBuffer drawn on it                  *)

\* glBufferData(GL_ARRAY_BUFFER, size, 0, usage): a new, empty data store for
\* the buffer bound
glBufferData(s, size) ==
    Emit(IF s.gl.arrayBuffer = 0 THEN s
            ELSE [s EXCEPT !.gl.buffers[s.gl.arrayBuffer] =
                               [size |-> size, data |-> NULL, filled |-> 0]],
         "glBufferData", <<size>>)

\* the names glGenVertexArrays and glGenBuffers return to VertexBuffer::create
\* (0: generation failed)
VbEnvs == [vao : {0, CallerVao}, vbo : {0, CallerVbo}]

\* VertexBuffer::create
VertexBuffer_create(s, vertexCount, env) ==
    LET allocate(x) ==
            glBindVertexArray(
                glBindBuffer(
                    Emit(glBufferData(glBindBuffer(glBindVertexArray(x, x.vbuf.m_vao),
                                                   x.vbuf.m_vbo),
                                      SizeofVertex * vertexCount),
                         "glVertexAttribPointer", <<0, 1, 2>>),
                    0),
                0)
        buffer(x) ==
            IF x.vbuf.m_vbo = 0 THEN Return(x, FALSE)
            ELSE Return([allocate(x) EXCEPT !.vbuf.m_size = vertexCount], TRUE)
        array(x) ==
            IF x.vbuf.m_vao = 0 THEN Return(x, FALSE)
            ELSE buffer(IF x.vbuf.m_vbo = 0
                           THEN [Emit(x, "glGenBuffers", <<env.vbo>>)
                                    EXCEPT !.vbuf.m_vbo = env.vbo]
                           ELSE x)
    IN array(IF s.vbuf.m_vao = 0
                THEN [Emit(s, "glGenVertexArrays", <<env.vao>>) EXCEPT !.vbuf.m_vao = env.vao]
                ELSE s)

\* VertexBuffer::create(vertexCount), called by the user once a render target
\* exists (its constructor loads the GL extensions)
VbCreate ==
    /\ pipelineRefCount > 0
    /\ \E vertexCount \in 0 .. MaxVbSize, env \in VbEnvs :
          Commit(VertexBuffer_create(Cur, vertexCount, env),
                 [CallOf("vbCreate", NULL) EXCEPT !.count = vertexCount])

\* RenderTarget::draw(vertexBuffer, firstVertex, vertexCount, states)
DrawVB(t) ==
    /\ Usable(t)
    /\ \E firstVertex \in 0 .. MaxVbSize + 1, vertexCount \in 0 .. MaxVbSize + 1 :
          Commit(RenderTarget_drawVertexBuffer(Cur, t, firstVertex, vertexCount,
                                               RenderStates(BlendAlpha), NoEnv),
                 [CallOf("drawVertexBuffer", t) EXCEPT !.first = firstVertex,
                                                        !.count = vertexCount])

NextVB ==
    \/ OnCreate("w1")
    \/ Clear("w1")
    \/ VbCreate
    \/ DrawVB("w1")

SpecVB == InitOne /\ [][NextVB]_vars

\* C8: a draw of a vertex buffer with first beyond the buffer's vertex count
\* issues no draw command; otherwise a draw command that is issued draws
\* min(count, vertexCount - first) vertices from first, which stays inside
\* the buffer, and nothing at all is issued when that count is 0.
C8_VertexBufferDrawClamps ==
    call.op = "drawVertexBuffer" =>
        /\ call.first > vbuf.m_size => DrawCmds = {}
        /\ \A i \in DrawCmds :
              /\ issued[i].args[2] = call.first
              /\ issued[i].args[3] = Min(call.count, vbuf.m_size - call.first)
              /\ issued[i].args[2] + issued[i].args[3] <= vbuf.m_size
        /\ (call.first <= vbuf.m_size /\ Min(call.count, vbuf.m_size - call.first) = 0)
              => issued = <<>>

\* C8 witness: a draw whose count reaches beyond the end of the buffer and is
\* clamped to the vertices that remain
C8_Witness ==
    /\ call.op = "drawVertexBuffer"
    /\ call.first > 0
    /\ call.first + call.count > vbuf.m_size
    /\ \E i \in DrawCmds : issued[i].args[3] = vbuf.m_size - call.first

----------------------------------------------------------------------------
(* SpecBig: one window, draws of vertex arrays up to and beyond MAX_VERTEX  *)

DrawInputsBig ==
    [vertices : {"va", "vb"}, count : {1, MAX_VERTEX, MAX_VERTEX + 1},
     blendMode : {BlendAlpha}]

NextBig ==
    \/ OnCreate("w1")
    \/ Clear("w1")
    \/ SetView("w1", {CameraView})
    \/ Draw("w1", DrawInputsBig)

SpecBig == InitOne /\ [][NextBig]_vars

\* C9: a draw of count >= 1 vertices issues a draw command over exactly the
\* vertices [0, count), and at that command the internal vertex buffer holds
\* these count vertices, uploaded within its capacity and without GL error.
C9_DrawUploadsAllVertices ==
    (call.op = "draw" /\ call.vertices # NULL /\ call.count >= 1) =>
        /\ DrawCmds # {}
        /\ \A i \in DrawCmds :
              /\ issued[i].args[2] = 0
              /\ issued[i].args[3] = call.count
              /\ issued[i].at.buffers[PipelineVbo].data = call.vertices
              /\ issued[i].at.buffers[PipelineVbo].filled = call.count * SizeofVertex
              /\ call.count * SizeofVertex <= issued[i].at.buffers[PipelineVbo].size
        /\ \A i \in DOMAIN issued :
              issued[i].cmd = "glBufferSubData" => issued[i].args[4] = "GL_NO_ERROR"

----------------------------------------------------------------------------
(* SpecIds: windows and textures constructed, initialized, swapped and      *)
(* destroyed in any order, from a process that holds no object yet          *)

\* getUniqueId (Texture.cpp): return id++
TextureImpl_getUniqueId(s) ==
    [s EXCEPT !.ret = s.textureNextId, !.textureNextId = @ + 1]

\* Texture::Texture()
Texture_ctor(s, x) ==
    LET constructed(r) ==
            [r EXCEPT !.textures[x] = [NoTexture EXCEPT !.alive = TRUE, !.m_cacheId = r.ret]]
    IN constructed(TextureImpl_getUniqueId(s))

\* glDeleteTextures: a deleted texture that is bound is unbound
glDeleteTexture(s, name) ==
    Emit([s EXCEPT !.gl.textures = @ \ {name},
                   !.gl.texture2D = IF @ = name THEN 0 ELSE @],
         "glDeleteTextures", <<name>>)

\* Texture::~Texture
Texture_dtor(s, x) ==
    [(IF s.textures[x].m_texture # 0
         THEN glDeleteTexture(s, s.textures[x].m_texture) ELSE s)
        EXCEPT !.textures[x] = NoTexture]

\* Texture::swap: every member is exchanged, then each side takes a new id
Texture_swap(s, x, right) ==
    LET rightId(r) == [r EXCEPT !.textures[right].m_cacheId = r.ret]
        leftId(r) == rightId(TextureImpl_getUniqueId(
                                 [r EXCEPT !.textures[x].m_cacheId = r.ret]))
    IN leftId(TextureImpl_getUniqueId(
                  [s EXCEPT !.textures[x] = s.textures[right],
                            !.textures[right] = s.textures[x]]))

\* RenderWindow::~RenderWindow
RenderWindow_dtor(s, t) == RenderTarget_dtor(s, t)

WindowConstruct(t) ==
    /\ ~targets[t].alive
    /\ Commit(RenderWindow_ctor(Cur, t, WindowWidth, WindowHeight), CallOf("construct", t))

WindowDestroy(t) ==
    /\ targets[t].alive
    /\ Commit(RenderWindow_dtor(Cur, t), CallOf("destroy", t))

TextureConstruct(x) ==
    /\ ~textures[x].alive
    /\ textureNextId <= MaxIds
    /\ Commit(Texture_ctor(Cur, x), CallOf("textureConstruct", NULL))

TextureDestroy(x) ==
    /\ textures[x].alive
    /\ Commit(Texture_dtor(Cur, x), CallOf("textureDestroy", NULL))

TextureSwap(x, right) ==
    /\ textures[x].alive /\ textures[right].alive
    /\ x # right
    /\ textureNextId + 1 <= MaxIds
    /\ Commit(Texture_swap(Cur, x, right), CallOf("textureSwap", NULL))

InitIds == InitFrom(Start)

NextIds ==
    \/ \E t \in Windows :
          \/ WindowConstruct(t)
          \/ OnCreate(t)
          \/ ReCreate(t)
          \/ WindowDestroy(t)
    \/ \E x \in TextureNames :
          \/ TextureConstruct(x)
          \/ TextureDestroy(x)
          \/ \E right \in TextureNames : TextureSwap(x, right)

SpecIds == InitIds /\ [][NextIds]_vars

\* the targets and the textures that exist
LiveTargets == {t \in Targets : targets[t].alive}
LiveTextures == {x \in TextureNames : textures[x].alive}

\* C10 as claimed: any two render targets that exist hold different unique
\* ids, and so do any two textures that exist.
C10_UniqueIds_Claimed ==
    /\ \A t, u \in LiveTargets : t # u => targets[t].m_id # targets[u].m_id
    /\ \A x, y \in LiveTextures : x # y => textures[x].m_cacheId # textures[y].m_cacheId

\* C10 amended: any two render targets that exist and are initialized hold
\* different unique ids, a target that is not initialized holds id 0, and any
\* two textures that exist hold different, nonzero unique ids.
C10_UniqueIds ==
    /\ \A t, u \in LiveTargets :
          (t # u /\ targets[t].m_id # 0 /\ targets[u].m_id # 0)
              => targets[t].m_id # targets[u].m_id
    /\ \A t \in LiveTargets : targets[t].m_id \in 0 .. targetNextId - 1
    /\ \A x, y \in LiveTextures : x # y => textures[x].m_cacheId # textures[y].m_cacheId
    /\ \A x \in LiveTextures : textures[x].m_cacheId \in 1 .. textureNextId - 1

\* C10 witness: two initialized windows and two textures exist after an
\* earlier window and an earlier texture were destroyed
C10_Witness ==
    /\ LiveTargets = Windows
    /\ \A t \in Windows : targets[t].m_id > 1
    /\ LiveTextures = TextureNames
    /\ \A x \in TextureNames : textures[x].m_cacheId > 1

----------------------------------------------------------------------------
(* SpecConc: threads that call getUniqueId of RenderTarget.cpp (counter     *)
(* "target", guarded by mutex) and of Texture.cpp (counter "texture",       *)
(* guarded by idMutex) at the same time.  The statement  return id++  is    *)
(* a read of id followed by a write of id + 1.                              *)

Counters == {"target", "texture"}

\* the static id of a counter
IdOf(counter) == IF counter = "target" THEN targetNextId ELSE textureNextId

\* a thread enters getUniqueId
GetUniqueIdCall(th, counter) ==
    /\ threads[th].pc = "idle"
    /\ IdOf(counter) + Cardinality({o \in Threads : threads[o].pc # "idle"
                                                   /\ threads[o].counter = counter})
          <= MaxIds
    /\ threads' = [threads EXCEPT ![th] = [pc |-> "lock", counter |-> counter, id |-> 0]]
    /\ UNCHANGED <<targets, lastActiveId, targetNextId, textureNextId, textures,
                   pipelineRefCount, pipeline, gl, fbo, vbuf, call, lastDrawn,
                   mutexes, handed, issued>>

\* sf::Lock lock(mutex): the thread waits until the mutex is free and takes it
LockMutex(th) ==
    /\ threads[th].pc = "lock"
    /\ mutexes[threads[th].counter] = NULL
    /\ mutexes' = [mutexes EXCEPT ![threads[th].counter] = th]
    /\ threads' = [threads EXCEPT ![th].pc = "read"]
    /\ UNCHANGED <<targets, lastActiveId, targetNextId, textureNextId, textures,
                   pipelineRefCount, pipeline, gl, fbo, vbuf, call, lastDrawn,
                   handed, issued>>

\* id++, first half: the value to return is read
IdRead(th) ==
    /\ threads[th].pc = "read"
    /\ threads' = [threads EXCEPT ![th].pc = "write", ![th].id = IdOf(threads[th].counter)]
    /\ UNCHANGED <<targets, lastActiveId, targetNextId, textureNextId, textures,
                   pipelineRefCount, pipeline, gl, fbo, vbuf, call, lastDrawn,
                   mutexes, handed, issued>>

\* a faulty second half of id++ that writes the value read back
IdWrite_NoAdvance(th) ==
    /\ threads[th].pc = "write"
    /\ threads' = [threads EXCEPT ![th].pc = "unlock"]
    /\ UNCHANGED <<targets, lastActiveId, targetNextId, textureNextId, textures,
                   pipelineRefCount, pipeline, gl, fbo, vbuf, call, lastDrawn,
                   mutexes, handed, issued>>

\* id++, second half: id is written with the value read plus one
IdWrite(th) ==
    /\ threads[th].pc = "write"
    /\ targetNextId' = IF threads[th].counter = "target" THEN threads[th].id + 1
                                                         ELSE targetNextId
    /\ textureNextId' = IF threads[th].counter = "texture" THEN threads[th].id + 1
                                                           ELSE textureNextId
    /\ threads' = [threads EXCEPT ![th].pc = "unlock"]
    /\ UNCHANGED <<targets, lastActiveId, textures,
                   pipelineRefCount, pipeline, gl, fbo, vbuf, call, lastDrawn,
                   mutexes, handed, issued>>

\* return: the Lock is destroyed, which releases the mutex, and the caller
\* receives the id read
UnlockReturn(th) ==
    /\ threads[th].pc = "unlock"
    /\ mutexes' = [mutexes EXCEPT ![threads[th].counter] = NULL]
    /\ handed' = [handed EXCEPT ![threads[th].counter] = Append(@, threads[th].id)]
    /\ threads' = [threads EXCEPT ![th].pc = "idle"]
    /\ UNCHANGED <<targets, lastActiveId, targetNextId, textureNextId, textures,
                   pipelineRefCount, pipeline, gl, fbo, vbuf, call, lastDrawn, issued>>

InitConc == InitFrom(Start)

NextConc ==
    \E th \in Threads :
        \/ \E counter \in Counters : GetUniqueIdCall(th, counter)
        \/ LockMutex(th)
        \/ IdRead(th)
        \/ IdWrite(th)
        \/ UnlockReturn(th)

SpecConc == InitConc /\ [][NextConc]_vars

\* C11: with several threads inside getUniqueId at the same time, every id
\* returned is nonzero, no two requests to the same counter receive the same
\* id, and the value of each counter only increases.
C11_UniqueIdsAtomic ==
    /\ [](\A c \in Counters :
            /\ \A i \in DOMAIN handed[c] : handed[c][i] # 0
            /\ \A i, j \in DOMAIN handed[c] : i # j => handed[c][i] # handed[c][j])
    /\ [][targetNextId' >= targetNextId /\ textureNextId' >= textureNextId]_vars

\* C11 witness: two requests to the same counter were served while a third
\* thread was waiting for the mutex that another thread holds
C11_Witness ==
    \E c \in Counters :
        /\ Len(handed[c]) >= 2
        /\ \E th, o \in Threads :
              /\ threads[th].pc = "lock" /\ threads[th].counter = c
              /\ threads[o].pc = "write" /\ threads[o].counter = c

----------------------------------------------------------------------------
\* C12: after any sequence of RenderTarget constructions and destructions the
\* pipeline reference count equals the number of RenderTarget objects that
\* exist, and the shared pipeline exists exactly when that number is above
\* zero: the first construction creates it, the last destruction destroys
\* it, and a construction after that creates it again.
C12_PipelineRefCount ==
    /\ pipelineRefCount = Cardinality(LiveTargets)
    /\ (pipeline.m_shaderId # 0) <=> (Cardinality(LiveTargets) > 0)

\* C12 witness: a target was constructed, initialized and destroyed along
\* with every other target, and the construction of the last step found no
\* target alive and created the pipeline again
C12_Witness ==
    /\ call.op = "construct"
    /\ Cardinality(LiveTargets) = 1
    /\ targetNextId > 1
    /\ pipeline = NewPipeline

----------------------------------------------------------------------------
\* C13: RenderTextureImplFBO::activate(false) leaves framebuffer 0, the
\* window framebuffer, bound when it returns, whatever the state of the
\* object.
C13_DeactivateBindsFramebuffer0 ==
    (call.op = "fboActivate" /\ ~call.active)
        => (gl.drawFramebuffer = 0 /\ gl.readFramebuffer = 0)

----------------------------------------------------------------------------
(* SpecRT: the life of RenderTextureImplFBO objects on one GL context:      *)
(* create on a new object, activate, updateTexture, destruction             *)

glDeleteRenderbuffer(s, name) ==
    Emit([s EXCEPT !.gl.renderbuffers = @ \ {name}], "glDeleteRenderbuffers", <<name>>)

\* glBindFramebuffer(GL_DRAW_FRAMEBUFFER, name)
glBindDrawFramebuffer(s, name) ==
    Emit([s EXCEPT !.gl.drawFramebuffer = name],
         "glBindFramebuffer", <<"GL_DRAW_FRAMEBUFFER", name>>)

\* glBlitFramebuffer copies from the read to the draw framebuffer; it is
\* logged with the GL state it executes in
glBlitFramebuffer(s, width, height) ==
    [s EXCEPT !.issued = Append(@, [cmd |-> "glBlitFramebuffer",
                                    args |-> <<width, height>>,
                                    at |-> s.gl])]

\* RenderTextureImplFBO::updateTexture
RenderTextureImplFBO_updateTexture(s, env) ==
    LET blitted(x) == glBindDrawFramebuffer(x, x.fbo.m_multisampleFrameBufferId)
        target(x) == blitted(glBlitFramebuffer(x, x.fbo.m_width, x.fbo.m_height))
        activated(a) ==
            IF a.ret THEN target(glBindDrawFramebuffer(a, a.fbo.m_frameBufferId))
                     ELSE a
    IN IF ~SFML_OPENGL_ES /\ s.fbo.m_multisample
            /\ s.fbo.m_width # 0 /\ s.fbo.m_height # 0
          THEN Return(activated(RenderTextureImplFBO_activate(s, TRUE, env)), TRUE)
          ELSE Return(s, TRUE)

\* RenderTextureImplFBO::~RenderTextureImplFBO
RenderTextureImplFBO_dtor(s) ==
    LET multisample(x) ==
            IF x.fbo.m_multisampleFrameBufferId # 0
                THEN glDeleteFramebuffer(x, x.fbo.m_multisampleFrameBufferId) ELSE x
        frame(x) ==
            multisample(IF x.fbo.m_frameBufferId # 0
                           THEN glDeleteFramebuffer(x, x.fbo.m_frameBufferId) ELSE x)
        depth(x) ==
            frame(IF x.fbo.m_depthStencilBuffer # 0
                     THEN glDeleteRenderbuffer(x, x.fbo.m_depthStencilBuffer) ELSE x)
    IN depth(IF s.fbo.m_colorBuffer # 0
                THEN glDeleteRenderbuffer(s, s.fbo.m_colorBuffer) ELSE s)

\* the ContextSettings a render texture is created with
FboSettings ==
    [depthBits : {0, 24}, stencilBits : {0, 8}, antialiasingLevel : 0 .. MaxSamples + 1]

\* RenderTextureImplFBO::create on a newly constructed object
FboCreate ==
    /\ fbo = NewFbo
    /\ \E settings \in FboSettings, env \in FboEnvs(Cur) :
          LET done(r) == Commit(r, [CallOf("fboCreate", NULL) EXCEPT !.settings = settings,
                                                                     !.ret = r.ret])
          IN done(RenderTextureImplFBO_create(Cur, WindowWidth, WindowHeight,
                                              FboTexture, settings, env))

\* RenderTextureImplFBO::updateTexture on an object that holds a framebuffer
FboUpdateTexture ==
    /\ fbo.m_frameBufferId # 0
    /\ \E env \in FboEnvs(Cur) :
          Commit(RenderTextureImplFBO_updateTexture(Cur, env),
                 CallOf("fboUpdateTexture", NULL))

\* the object is destroyed and a new one is constructed
FboDestroy ==
    /\ fbo # NewFbo
    /\ Commit([RenderTextureImplFBO_dtor(Cur) EXCEPT !.fbo = NewFbo],
              CallOf("fboDestroy", NULL))

InitRT == InitFrom(Start)

NextRT ==
    \/ FboCreate
    \/ FboActivate
    \/ FboUpdateTexture
    \/ FboDestroy

SpecRT == InitRT /\ [][NextRT]_vars

\* the commands of the last step with the given name
CmdsNamed(name) == {i \in DOMAIN issued : issued[i].cmd = name}

\* C14: with multisampling, the blit of updateTexture() executes with the
\* multisample framebuffer bound as the read framebuffer and the
\* single-sample framebuffer, which holds the texture, as the draw
\* framebuffer.
C14_BlitFromMultisample ==
    (call.op = "fboUpdateTexture" /\ fbo.m_multisample
        /\ fbo.m_frameBufferId # 0 /\ fbo.m_multisampleFrameBufferId # 0)
        => /\ CmdsNamed("glBlitFramebuffer") # {}
           /\ \A i \in CmdsNamed("glBlitFramebuffer") :
                 /\ issued[i].at.readFramebuffer = fbo.m_multisampleFrameBufferId
                 /\ issued[i].at.drawFramebuffer = fbo.m_frameBufferId

\* C15: when RenderTextureImplFBO::create returns false, each of the four
\* handles of the object (colour renderbuffer, depth/stencil renderbuffer,
\* framebuffer, multisample framebuffer) is 0 or names a deleted object.
C15_FailedCreateRetainsNothing ==
    (call.op = "fboCreate" /\ ~call.ret)
        => /\ fbo.m_colorBuffer \notin gl.renderbuffers
           /\ fbo.m_depthStencilBuffer \notin gl.renderbuffers
           /\ fbo.m_frameBufferId \notin gl.framebuffers
           /\ fbo.m_multisampleFrameBufferId \notin gl.framebuffers

\* C16: create with an antialiasing level above the maximum sample count of
\* the platform returns false and generates no renderbuffer and no
\* framebuffer.
C16_UnsupportedAntialiasing ==
    (call.op = "fboCreate" /\ call.settings.antialiasingLevel > GL_MAX_SAMPLES)
        => /\ ~call.ret
           /\ CmdsNamed("glGenRenderbuffers") = {}
           /\ CmdsNamed("glGenFramebuffers") = {}
           /\ fbo.m_colorBuffer = 0 /\ fbo.m_depthStencilBuffer = 0
           /\ fbo.m_frameBufferId = 0 /\ fbo.m_multisampleFrameBufferId = 0

\* C16 witness: a create with a level above the maximum has returned, on a
\* context where generating each object would have succeeded
C16_Witness ==
    /\ call.op = "fboCreate"
    /\ call.settings.antialiasingLevel > GL_MAX_SAMPLES
    /\ call.settings.depthBits # 0
    /\ gl.framebuffers = {} /\ gl.renderbuffers = {}

\* C17: when a completeness check of createFrameBuffer fails, for the
\* primary or for the multisample framebuffer, the call returns false and
\* no framebuffer generated during the call is alive or recorded in
\* m_frameBufferId or m_multisampleFrameBufferId.  A failed completeness
\* check is the only place that deletes a framebuffer outside the
\* destructor.
C17_IncompleteLeavesNoFramebuffer ==
    (call.op \in {"fboCreate", "fboActivate"} /\ CmdsNamed("glDeleteFramebuffers") # {})
        => /\ ~call.ret
           /\ \A i \in CmdsNamed("glGenFramebuffers") :
                 \/ issued[i].args[1] = 0
                 \/ /\ issued[i].args[1] \notin gl.framebuffers
                    /\ issued[i].args[1] # fbo.m_frameBufferId
                    /\ issued[i].args[1] # fbo.m_multisampleFrameBufferId

----------------------------------------------------------------------------
(* Texture.cpp: unsigned int.  A value u of the 32-bit type is held as the  *)
(* integer u when u < 2^31 and as u - 2^32 when u >= 2^31, so that          *)
(* arithmetic stays within 32 bits and wraps as unsigned arithmetic does.   *)

Uint_2_30 == 1073741824
\* 2^31 and 2^32 - 1 as unsigned int
Uint_2_31 == (-Uint_2_30) - Uint_2_30
UINT_MAX == -1

\* a < b on unsigned int
UintLess(a, b) ==
    IF (a < 0) = (b < 0) THEN a < b ELSE b < 0

\* a * 2 on unsigned int: modulo 2^32
UintTimes2(a) ==
    2 * (a % Uint_2_30) + (IF (a \div Uint_2_30) % 2 = 1 THEN Uint_2_31 ELSE 0)

\* while (powerOfTwo < size) powerOfTwo *= 2;  once powerOfTwo has wrapped
\* to 0 the condition stays true and the value no longer changes: the loop
\* does not end
RECURSIVE PowerOfTwoLoop(_, _)
PowerOfTwoLoop(powerOfTwo, size) ==
    IF ~UintLess(powerOfTwo, size) THEN [returns |-> TRUE, value |-> powerOfTwo]
    ELSE IF powerOfTwo = 0 THEN [returns |-> FALSE, value |-> 0]
    ELSE PowerOfTwoLoop(UintTimes2(powerOfTwo), size)

\* Texture::getValidSize on the Windows build, where bEnable is
\* GLAD_GL_ARB_texture_non_power_of_two > 0
getValidSize(bEnable, size) ==
    IF bEnable THEN [returns |-> TRUE, value |-> size]
               ELSE PowerOfTwoLoop(1, size)

\* what a call can do: a loop without side effects that does not end is
\* undefined, the build may keep it (the call never returns) or drop its
\* condition (the call returns the wrapped value)
getValidSizeOutcomes(bEnable, size) ==
    IF getValidSize(bEnable, size).returns
        THEN {getValidSize(bEnable, size)}
        ELSE {getValidSize(bEnable, size), [returns |-> TRUE, value |-> 0]}

----------------------------------------------------------------------------
(* SpecSize: Texture::getValidSize applied to sizes of the whole range of   *)
(* unsigned int, with and without support of non-power-of-two textures      *)

Sizes ==
    (0 .. MaxSize) \cup {500, 512, 513, Uint_2_30, Uint_2_30 + 1,
                         Uint_2_30 + (Uint_2_30 - 1), Uint_2_31, Uint_2_31 + 1, UINT_MAX}

InitSize ==
    \E bEnable \in BOOLEAN :
        InitFrom([Start EXCEPT !.gl.ARB_texture_non_power_of_two = bEnable])

GetValidSize ==
    /\ call.returns
    /\ \E size \in Sizes :
       \E r \in getValidSizeOutcomes(gl.ARB_texture_non_power_of_two, size) :
          Commit(Cur, [CallOf("getValidSize", NULL)
                          EXCEPT !.width = size, !.returns = r.returns, !.ret = r.value])

NextSize == GetValidSize

SpecSize == InitSize /\ [][NextSize]_vars

\* the powers of two of unsigned int
PowersOfTwo == {2 ^ e : e \in 0 .. 30} \cup {Uint_2_31}

\* C19: without support of non-power-of-two textures getValidSize(size)
\* returns the smallest power of two that is not below size (512 for 500 and
\* for 512); with support it returns size itself.
C19_ValidSize ==
    call.op = "getValidSize"
        => /\ call.returns
           /\ gl.ARB_texture_non_power_of_two => call.ret = call.width
           /\ ~gl.ARB_texture_non_power_of_two =>
                 /\ call.ret \in PowersOfTwo
                 /\ ~UintLess(call.ret, call.width)
                 /\ \A p \in PowersOfTwo :
                       ~UintLess(p, call.width) => ~UintLess(p, call.ret)
                 /\ call.width \in {500, 512} => call.ret = 512

----------------------------------------------------------------------------
(* SpecTex: textures constructed, created, updated, given mipmaps and       *)
(* destroyed on one GL context                                              *)

GLAD_GL_EXT_texture_sRGB == TRUE
GLAD_GL_EXT_framebuffer_object == TRUE

\* Texture::getMaximumSize: GL_MAX_TEXTURE_SIZE, asked once
getMaximumSize == MaxTextureSize

glGenTexture(s, name) ==
    Emit(IF name = 0 THEN s ELSE [s EXCEPT !.gl.textures = @ \cup {name}],
         "glGenTextures", <<name>>)

\* glBindFramebuffer(GL_READ_FRAMEBUFFER, name)
glBindReadFramebuffer(s, name) ==
    Emit([s EXCEPT !.gl.readFramebuffer = name],
         "glBindFramebuffer", <<"GL_READ_FRAMEBUFFER", name>>)

\* the end of the scope of a priv::TextureSaver: the texture binding found
\* when it was declared is bound again
TextureSaver_dtor(s, textureBinding) == glBindTexture(s, textureBinding)

\* Texture::create once the validity checks have passed: the settings are
\* stored and the GL texture is generated, if there is none yet, and
\* initialized.  validWidth and validHeight are the actual dimensions, name
\* is what glGenTextures returns.
Texture_createValid(s, x, width, height, validWidth, validHeight, name) ==
    LET made(r) == Return(TextureSaver_dtor([r EXCEPT !.textures[x].m_cacheId = r.ret,
                                                      !.textures[x].m_hasMipmap = FALSE],
                                            s.gl.texture2D), TRUE)
        initialized(r) ==
            made(TextureImpl_getUniqueId(
                     Emit(Emit(glBindTexture(r, r.textures[x].m_texture),
                               "glTexImage2D", r.textures[x].m_actualSize),
                          "glTexParameteri", <<r.textures[x].m_isRepeated,
                                               r.textures[x].m_isSmooth>>)))
        srgb(r) ==
            initialized(IF r.textures[x].m_sRgb /\ ~GLAD_GL_EXT_texture_sRGB
                            THEN [r EXCEPT !.textures[x].m_sRgb = FALSE] ELSE r)
        stored(r) ==
            srgb(IF r.textures[x].m_texture = 0
                    THEN [glGenTexture(r, name) EXCEPT !.textures[x].m_texture = name]
                    ELSE r)
    IN stored([s EXCEPT !.textures[x].m_size = <<width, height>>,
                        !.textures[x].m_actualSize = <<validWidth, validHeight>>,
                        !.textures[x].m_pixelsFlipped = FALSE,
                        !.textures[x].m_fboAttachment = FALSE])

\* a faulty Texture::create that does not compare with the maximum size
Texture_create_NoMaximum(s, x, width, height, env) ==
    IF width = 0 \/ height = 0 THEN Return(s, FALSE)
    ELSE IF ~env.validWidth.returns \/ ~env.validHeight.returns THEN s
    ELSE Texture_createValid(s, x, width, height, env.validWidth.value,
                             env.validHeight.value, env.texture)

\* Texture::create.  env holds what the two calls of getValidSize do and the
\* name glGenTextures returns.  When a call of getValidSize does not return,
\* create has changed nothing yet.
Texture_create(s, x, width, height, env) ==
    IF width = 0 \/ height = 0 THEN Return(s, FALSE)
    ELSE IF ~env.validWidth.returns \/ ~env.validHeight.returns THEN s
    ELSE IF UintLess(getMaximumSize, env.validWidth.value)
              \/ UintLess(getMaximumSize, env.validHeight.value)
        THEN Return(s, FALSE)
    ELSE Texture_createValid(s, x, width, height, env.validWidth.value,
                             env.validHeight.value, env.texture)

\* a faulty update from pixels that keeps the cache id
Texture_update_KeepsCacheId(s, x, pixels, width, height, px, py) ==
    IF pixels # NULL /\ s.textures[x].m_texture # 0
        THEN [s EXCEPT !.textures[x].m_hasMipmap = FALSE,
                       !.textures[x].m_pixelsFlipped = FALSE]
        ELSE s

\* Texture::update(const Uint8* pixels, width, height, x, y), built without
\* SFML_DEBUG
Texture_update(s, x, pixels, width, height, px, py) ==
    LET uploaded(r) ==
            TextureSaver_dtor(Emit([r EXCEPT !.textures[x].m_cacheId = r.ret], "glFlush", <<>>),
                              s.gl.texture2D)
    IN IF pixels # NULL /\ s.textures[x].m_texture # 0
          THEN uploaded(TextureImpl_getUniqueId(
                   [Emit(Emit(glBindTexture(s, s.textures[x].m_texture),
                              "glTexSubImage2D", <<px, py, width, height, pixels>>),
                         "glTexParameteri", <<s.textures[x].m_isSmooth>>)
                       EXCEPT !.textures[x].m_hasMipmap = FALSE,
                              !.textures[x].m_pixelsFlipped = FALSE]))
          ELSE s

\* Texture::copyToImage: the pixels of a texture that has a handle
glGetTexImage(s, name, size) ==
    Return(Emit(s, "glGetTexImage", <<name>>),
           [k \in 1 .. size[1] * size[2] |-> <<(k - 1) % size[1], (k - 1) \div size[1]>>])

\* the loop of copyToImage from row i on: memcpy of dstPitch bytes from src
\* to the end of what was copied so far.  src and the pitches are counted in
\* pixels.
RECURSIVE Texture_copyRows(_, _, _, _, _, _, _)
Texture_copyRows(pixels, allPixels, i, height, src, srcPitch, dstPitch) ==
    IF i < height
        THEN Texture_copyRows(pixels \o SubSeq(allPixels, src + 1, src + dstPitch),
                              allPixels, i + 1, height, src + srcPitch, srcPitch, dstPitch)
        ELSE pixels

\* a faulty copy that never reverses the rows
Texture_copyPixels_NoFlip(size, actualSize, pixelsFlipped, allPixels) ==
    IF size = actualSize /\ ~pixelsFlipped THEN allPixels
    ELSE Texture_copyRows(<<>>, allPixels, 0, size[2], 0, actualSize[1], size[1])

\* the pixels copyToImage hands to Image::create, from what glGetTexImage
\* has returned
Texture_copyPixels(size, actualSize, pixelsFlipped, allPixels) ==
    IF size = actualSize /\ ~pixelsFlipped THEN allPixels
    ELSE IF pixelsFlipped
        THEN Texture_copyRows(<<>>, allPixels, 0, size[2],
                              actualSize[1] * (size[2] - 1), -actualSize[1], size[1])
    ELSE Texture_copyRows(<<>>, allPixels, 0, size[2], 0, actualSize[1], size[1])

\* Texture::copyToImage, built without SFML_OPENGL_ES: the image is returned
\* in ret; data holds its pixels row by row, each named by the place
\* <<column, row>> it has in the storage of the GL texture
Texture_copyToImage(s, texture) ==
    LET created(r) ==
            Return(TextureSaver_dtor(r, s.gl.texture2D),
                   [pixels |-> "copied", size |-> s.textures[texture].m_size,
                    data |-> Texture_copyPixels(s.textures[texture].m_size,
                                                s.textures[texture].m_actualSize,
                                                s.textures[texture].m_pixelsFlipped, r.ret)])
    IN IF s.textures[texture].m_texture = 0
          THEN Return(s, [pixels |-> NULL, size |-> <<0, 0>>, data |-> <<>>])
          ELSE created(glGetTexImage(glBindTexture(s, s.textures[texture].m_texture),
                                     s.textures[texture].m_texture,
                                     s.textures[texture].m_actualSize))

\* Texture::update(const Texture& texture, x, y).  env holds the names the
\* two glGenFramebuffers return and the two results of
\* glCheckFramebufferStatus.
Texture_updateFromTexture(s, x, texture, px, py, env) ==
    LET updated(r) ==
            Texture_update(r, x, r.ret.pixels, r.ret.size[1], r.ret.size[2], px, py)
        finished(r) ==
            TextureSaver_dtor(Emit([r EXCEPT !.textures[x].m_cacheId = r.ret], "glFlush", <<>>),
                              s.gl.texture2D)
        bound(r) ==
            finished(TextureImpl_getUniqueId(
                [Emit(glBindTexture(r, r.textures[x].m_texture),
                      "glTexParameteri", <<r.textures[x].m_isSmooth>>)
                    EXCEPT !.textures[x].m_hasMipmap = FALSE,
                           !.textures[x].m_pixelsFlipped = FALSE]))
        restored(r) ==
            bound(glDeleteFramebuffer(glDeleteFramebuffer(
                      glBindDrawFramebuffer(glBindReadFramebuffer(r, s.gl.readFramebuffer),
                                            s.gl.drawFramebuffer),
                      env.source), env.dest))
        attached(r) ==
            restored(IF env.sourceComplete /\ env.destComplete
                        THEN glBlitFramebuffer(r, s.textures[texture].m_size[1],
                                               s.textures[texture].m_size[2])
                        ELSE r)
        generated(r) ==
            IF env.source = 0 \/ env.dest = 0 THEN r
            ELSE attached(glBindDrawFramebuffer(glBindReadFramebuffer(r, env.source),
                                                env.dest))
    IN IF s.textures[x].m_texture = 0 \/ s.textures[texture].m_texture = 0 THEN s
       ELSE IF ~SFML_OPENGL_ES /\ GLAD_GL_EXT_framebuffer_object /\ GLAD_GL_EXT_framebuffer_blit
           THEN generated(glGenFramebuffer(glGenFramebuffer(s, env.source), env.dest))
       ELSE updated(Texture_copyToImage(s, texture))

\* Texture::generateMipmap
Texture_generateMipmap(s, x) ==
    IF s.textures[x].m_texture = 0 THEN Return(s, FALSE)
    ELSE IF ~GLAD_GL_EXT_framebuffer_object THEN Return(s, FALSE)
    ELSE Return(TextureSaver_dtor(
                    [Emit(Emit(glBindTexture(s, s.textures[x].m_texture),
                               "glGenerateMipmap", <<>>),
                          "glTexParameteri", <<s.textures[x].m_isSmooth>>)
                        EXCEPT !.textures[x].m_hasMipmap = TRUE],
                    s.gl.texture2D), TRUE)

\* the dimensions passed to Texture::create
TextureSizes == {0, 3, MaxTextureSize + 1, Uint_2_31 + 1}

\* what glGenTextures returns: 0, or the first name not in use
GenTextureNames(alive) ==
    {0} \cup {n \in GenNames(alive) : n # 0 /\ \A m \in GenNames(alive) : m = 0 \/ n <= m}

TextureCreate(x, widths, heights) ==
    /\ call.returns
    /\ textures[x].alive
    /\ textureNextId <= MaxTextureIds
    /\ \E width \in widths, height \in heights, texture \in GenTextureNames(gl.textures) :
       \E validWidth \in getValidSizeOutcomes(gl.ARB_texture_non_power_of_two, width),
          validHeight \in getValidSizeOutcomes(gl.ARB_texture_non_power_of_two, height) :
          LET done(r) ==
                  Commit(r, [CallOf("textureCreate", x)
                                EXCEPT !.width = width, !.height = height,
                                       !.returns = width = 0 \/ height = 0
                                                      \/ (validWidth.returns
                                                            /\ validHeight.returns),
                                       !.ret = r.ret])
          IN done(Texture_create(Cur, x, width, height,
                                 [validWidth |-> validWidth, validHeight |-> validHeight,
                                  texture |-> texture]))

\* an sf::Image that was never created, and one of a single pixel
Images == {[pixels |-> NULL, size |-> <<0, 0>>], [pixels |-> "image", size |-> <<1, 1>>]}

\* the overloads of Texture::update that take pixels or an image, as the
\* call of update(pixels, width, height, x, y) each of them makes
PixelUpdates(x) ==
    {[op |-> "updatePixels", pixels |-> p, size |-> textures[x].m_size, at |-> <<0, 0>>] :
         p \in {NULL, "pixels"}}
    \cup {[op |-> "updatePixelsAt", pixels |-> p, size |-> <<1, 1>>, at |-> <<0, 0>>] :
              p \in {NULL, "pixels"}}
    \cup {[op |-> "updateImage", pixels |-> i.pixels, size |-> i.size, at |-> <<0, 0>>] :
              i \in Images}
    \cup {[op |-> "updateImageAt", pixels |-> i.pixels, size |-> i.size, at |-> <<0, 0>>] :
              i \in Images}

TextureUpdate(x) ==
    /\ call.returns
    /\ textures[x].alive
    /\ textureNextId <= MaxTextureIds
    /\ \E u \in PixelUpdates(x) :
          Commit(Texture_update(Cur, x, u.pixels, u.size[1], u.size[2], u.at[1], u.at[2]),
                 [CallOf(u.op, x) EXCEPT !.pixels = u.pixels])

\* Texture::update(texture) and Texture::update(texture, x, y)
TextureUpdateFromTexture(x, source) ==
    /\ call.returns
    /\ textures[x].alive /\ textures[source].alive
    /\ x # source
    /\ textureNextId <= MaxTextureIds
    /\ \E op \in {"updateTexture", "updateTextureAt"},
          fb \in GenNames(gl.framebuffers), other \in GenNames(gl.framebuffers),
          sourceComplete \in BOOLEAN, destComplete \in BOOLEAN :
          /\ (fb = 0 \/ fb # other)
          /\ (fb = 0 \/ other = 0) => (~sourceComplete /\ ~destComplete)
          /\ Commit(Texture_updateFromTexture(Cur, x, source, 0, 0,
                        [source |-> fb, dest |-> other,
                         sourceComplete |-> sourceComplete, destComplete |-> destComplete]),
                    [CallOf(op, x) EXCEPT !.source = source])

TextureGenerateMipmap(x) ==
    /\ call.returns
    /\ textures[x].alive
    /\ LET done(r) == Commit(r, [CallOf("generateMipmap", x) EXCEPT !.ret = r.ret])
       IN done(Texture_generateMipmap(Cur, x))

\* RenderWindow::toTexture(texture, x, y), built without SFML_DEBUG: the
\* window's frame is copied into the texture at (x, y).  The texture is a
\* const reference: none of its members is written.
RenderWindow_toTexture(s, t, texture, x, y) ==
    IF s.textures[texture].m_texture # 0
        THEN TextureSaver_dtor(
                 Emit(Emit(Emit(glBindTexture(s, s.textures[texture].m_texture),
                                "glCopyTexSubImage2D",
                                <<x, y, 0, 0, s.targets[t].m_size[1], s.targets[t].m_size[2]>>),
                           "glTexParameteri", <<s.textures[texture].m_isSmooth>>),
                      "glFlush", <<>>),
                 s.gl.texture2D)
        ELSE s

ToTexture(t, x) ==
    /\ call.returns
    /\ targets[t].alive /\ textures[x].alive
    /\ Commit(RenderWindow_toTexture(Cur, t, x, 0, 0),
              [CallOf("toTexture", x) EXCEPT !.source = t])

\* two textures constructed on the context; InitTex adds the window w1
TexturesConstructed == Texture_ctor(Texture_ctor(Start, "tx1"), "tx2")

InitTex ==
    \E bEnable \in BOOLEAN :
        InitFrom([RenderWindow_ctor(TexturesConstructed, "w1", WindowWidth, WindowHeight)
                     EXCEPT !.gl.ARB_texture_non_power_of_two = bEnable])

\* tx1 is created, updated, given mipmaps and written from the window w1;
\* tx2 is created and is the source of the updates from a texture
NextTex ==
    \/ TextureCreate("tx1", TextureSizes, {0, 1, MaxTextureSize + 1})
    \/ TextureCreate("tx2", {1}, {1})
    \/ TextureUpdate("tx1")
    \/ TextureUpdateFromTexture("tx1", "tx2")
    \/ TextureGenerateMipmap("tx1")
    \/ ToTexture("w1", "tx1")

SpecTex == InitTex /\ [][NextTex]_vars

\* C18: Texture::create(width, height) returns false when width or height is
\* 0 and when the actual size, after the adjustment to a power of two,
\* exceeds the maximum texture size; a create that returns false allocates
\* no GL texture and leaves size, actual size, handle, flags and cache id of
\* the texture, and the id counter, as they were.
C18_FailedCreateChangesNothing ==
    [][call'.op = "textureCreate" /\ call'.returns =>
          /\ (call'.width = 0 \/ call'.height = 0
                \/ UintLess(MaxTextureSize,
                            getValidSize(gl.ARB_texture_non_power_of_two, call'.width).value)
                \/ UintLess(MaxTextureSize,
                            getValidSize(gl.ARB_texture_non_power_of_two, call'.height).value))
                => call'.ret = FALSE
          /\ call'.ret = FALSE =>
                /\ textures' = textures
                /\ textureNextId' = textureNextId
                /\ gl' = gl
                /\ \A i \in DOMAIN issued' : issued'[i].cmd # "glGenTextures"]_vars

\* C18 witness: a create whose actual size exceeds the maximum has returned
\* false on a texture that an earlier create had given a handle and a size
C18_Witness ==
    /\ call.op = "textureCreate" /\ call.returns /\ call.ret = FALSE
    /\ call.width # 0 /\ call.height # 0
    /\ textures[call.t].m_texture # 0
    /\ textures[call.t].m_size = <<3, 1>>

\* the overloads of Texture::update
UpdateOps == {"updatePixels", "updatePixelsAt", "updateImage", "updateImageAt",
              "updateTexture", "updateTextureAt"}

\* C20 as claimed: every Texture::update, from pixels, an image or a
\* texture, with or without offset, leaves m_hasMipmap false and a cache id
\* strictly greater than before.
C20_UpdateBumpsCacheId_Claimed ==
    [][call'.op \in UpdateOps =>
          /\ ~textures'[call'.t].m_hasMipmap
          /\ textures'[call'.t].m_cacheId > textures[call'.t].m_cacheId]_vars

\* an update that is carried out: the texture has a handle and, from pixels
\* or an image, the pixel pointer is not null; from a texture, the source
\* has a handle and both framebuffers of the copy were generated
UpdateCarriedOut ==
    /\ call'.op \in UpdateOps
    /\ textures[call'.t].m_texture # 0
    /\ call'.op \in {"updateTexture", "updateTextureAt"} =>
          /\ textures[call'.source].m_texture # 0
          /\ \A i \in DOMAIN issued' :
                issued'[i].cmd = "glGenFramebuffers" => issued'[i].args[1] # 0
    /\ call'.op \notin {"updateTexture", "updateTextureAt"} => call'.pixels # NULL

\* C20 amended: an update that is carried out leaves m_hasMipmap false and a
\* cache id strictly greater than before; any other update leaves the
\* texture as it was.
C20_UpdateBumpsCacheId ==
    [][call'.op \in UpdateOps =>
          IF UpdateCarriedOut
              THEN /\ ~textures'[call'.t].m_hasMipmap
                   /\ textures'[call'.t].m_cacheId > textures[call'.t].m_cacheId
              ELSE textures' = textures]_vars

\* C20 witness: a texture has been updated from the other texture by a blit
\* and holds the id handed out last
C20_Witness ==
    /\ call.op = "updateTexture"
    /\ textures[call.t].m_texture # 0 /\ textures[call.source].m_texture # 0
    /\ ~textures[call.t].m_hasMipmap
    /\ textures[call.t].m_cacheId = textureNextId - 1
    /\ \E i \in DOMAIN issued : issued[i].cmd = "glBlitFramebuffer"

----------------------------------------------------------------------------
(* C21: the cache id as an invalidation token                               *)

\* the GL commands that write the pixels of the bound texture
UploadCmds == {"glTexImage2D", "glTexSubImage2D", "glCopyTexSubImage2D", "glBlitFramebuffer"}

\* C21: a texture's cache id never decreases, and every operation that
\* changes the pixels the GPU holds for a texture (create, update, a window
\* capture by RenderWindow::toTexture) leaves the texture with a cache id
\* other than the one it had before the operation.
C21_CacheIdInvalidates ==
    [][/\ \A x \in TextureNames :
             textures[x].alive /\ textures'[x].alive
                 => textures'[x].m_cacheId >= textures[x].m_cacheId
       /\ \A x \in TextureNames :
             (call'.t = x /\ \E i \in DOMAIN issued' : issued'[i].cmd \in UploadCmds)
                 => textures'[x].m_cacheId # textures[x].m_cacheId]_vars

\* a window capture has written the pixels of a created texture
C21_Witness ==
    /\ call.op = "toTexture"
    /\ \E i \in DOMAIN issued : issued[i].cmd = "glCopyTexSubImage2D"

----------------------------------------------------------------------------
(* SpecLoad: Texture::loadFromImage for images and areas of every shape     *)

IntRect(left, top, width, height) ==
    [left |-> left, top |-> top, width |-> width, height |-> height]

\* the condition under which loadFromImage loads the entire image
Texture_loadsEntireImage(image, area) ==
    \/ area.width = 0
    \/ area.height = 0
    \/ /\ area.left <= 0
       /\ area.top <= 0
       /\ area.width >= image.size[1]
       /\ area.height >= image.size[2]

\* the rectangle of loadFromImage once adjusted to the size of the image
Texture_loadRectangle(image, area) ==
    LET height(r) ==
            IF r.top + r.height > image.size[2]
                THEN [r EXCEPT !.height = image.size[2] - r.top] ELSE r
        width(r) ==
            height(IF r.left + r.width > image.size[1]
                       THEN [r EXCEPT !.width = image.size[1] - r.left] ELSE r)
        top(r) == width(IF r.top < 0 THEN [r EXCEPT !.top = 0] ELSE r)
    IN top(IF area.left < 0 THEN [area EXCEPT !.left = 0] ELSE area)

\* the width and height loadFromImage passes to create, converted from int
\* to unsigned int
Texture_loadSize(image, area) ==
    IF Texture_loadsEntireImage(image, area) THEN image.size
    ELSE <<Texture_loadRectangle(image, area).width, Texture_loadRectangle(image, area).height>>

\* the loop of loadFromImage from row i on: one glTexSubImage2D for each row
\* of the rectangle.  offset is the distance, in pixels, of the pointer
\* 'pixels' from image.getPixelsPtr().
RECURSIVE Texture_loadRows(_, _, _, _, _)
Texture_loadRows(s, image, rectangle, i, offset) ==
    IF i < rectangle.height
        THEN Texture_loadRows(
                 [s EXCEPT !.issued =
                      Append(@, [cmd |-> "glTexSubImage2D",
                                 args |-> <<0, i, rectangle.width, 1, image.pixels>>,
                                 offset |-> offset])],
                 image, rectangle, i + 1, offset + image.size[1])
        ELSE s

\* the upload of a sub-area by loadFromImage, after create has succeeded
Texture_loadFromImage_subArea(s, x, image, rectangle) ==
    LET uploaded(r) ==
            Return(TextureSaver_dtor(
                       Emit([Emit(r, "glTexParameteri", <<r.textures[x].m_isSmooth>>)
                                EXCEPT !.textures[x].m_hasMipmap = FALSE],
                            "glFlush", <<>>),
                       s.gl.texture2D), TRUE)
    IN uploaded(Texture_loadRows(glBindTexture(s, s.textures[x].m_texture), image,
                                 rectangle, 0,
                                 rectangle.left + image.size[1] * rectangle.top))

\* Texture::loadFromImage(image, area).  env holds what the calls of
\* getValidSize in create do and the name glGenTextures returns; when create
\* does not return, neither does loadFromImage.
Texture_loadFromImage(s, x, image, area, env) ==
    LET size == Texture_loadSize(image, area)
        created(r) ==
            IF size[1] # 0 /\ size[2] # 0
                  /\ (~env.validWidth.returns \/ ~env.validHeight.returns) THEN r
            ELSE IF ~r.ret THEN Return(r, FALSE)
            ELSE IF Texture_loadsEntireImage(image, area)
                THEN Return(Texture_update(r, x, image.pixels, image.size[1], image.size[2],
                                           0, 0), TRUE)
            ELSE Texture_loadFromImage_subArea(r, x, image,
                                               Texture_loadRectangle(image, area))
    IN created(Texture_create(s, x, size[1], size[2], env))

\* an image of 3 x 2 pixels, and an image that was never created
LoadImage == [pixels |-> "image", size |-> <<3, 2>>]
NoImage == [pixels |-> NULL, size |-> <<0, 0>>]

\* areas inside, across and outside the image, empty ones and negative
\* extents included
LoadAreas ==
    {IntRect(left, top, width, height) :
         left \in {-1, 0, 1, 3}, top \in {0, 1},
         width \in {-1, 0, 2, 4}, height \in {0, 1, 2}}

LoadInputs ==
    {[image |-> LoadImage, area |-> area] : area \in LoadAreas}
    \cup {[image |-> NoImage, area |-> area] : area \in {IntRect(0, 0, 0, 0), IntRect(0, 0, 2, 1)}}

LoadFromImage(x) ==
    /\ call.returns
    /\ textures[x].alive
    /\ textureNextId <= MaxIds
    /\ \E input \in LoadInputs, texture \in GenTextureNames(gl.textures) :
       \E image \in {input.image}, area \in {input.area} :
       \E validWidth \in getValidSizeOutcomes(gl.ARB_texture_non_power_of_two,
                                              Texture_loadSize(image, area)[1]),
          validHeight \in getValidSizeOutcomes(gl.ARB_texture_non_power_of_two,
                                               Texture_loadSize(image, area)[2]) :
          LET done(r) ==
                  Commit(r, [CallOf("loadFromImage", x)
                                EXCEPT !.width = image.size[1], !.height = image.size[2],
                                       !.pixels = image.pixels, !.area = area,
                                       !.returns = Texture_loadSize(image, area)[1] = 0
                                                      \/ Texture_loadSize(image, area)[2] = 0
                                                      \/ (validWidth.returns
                                                            /\ validHeight.returns),
                                       !.ret = r.ret])
          IN done(Texture_loadFromImage(Cur, x, image, area,
                                        [validWidth |-> validWidth,
                                         validHeight |-> validHeight,
                                         texture |-> texture]))

InitLoad == InitTex

NextLoad ==
    \/ LoadFromImage("tx1")
    \/ TextureGenerateMipmap("tx1")

SpecLoad == InitLoad /\ [][NextLoad]_vars

\* the texels written by the glTexSubImage2D commands of the last step, each
\* with the pixel of the image it was read from: <<x, y, index>>, index
\* counted row by row from the first pixel of the image
TexelsUploaded ==
    UNION {LET c == issued[i]
               start == IF "offset" \in DOMAIN c THEN c.offset ELSE 0
           IN {<<c.args[1] + dx, c.args[2] + dy, start + dx + c.args[3] * dy>> :
                   dx \in 0 .. c.args[3] - 1, dy \in 0 .. c.args[4] - 1} :
           i \in CmdsNamed("glTexSubImage2D")}

Max(a, b) == IF a > b THEN a ELSE b

\* the intersection of area with the rectangle of the image of the last call
AreaInImage ==
    LET left == Max(call.area.left, 0)
        top == Max(call.area.top, 0)
        right == Min(call.area.left + call.area.width, call.width)
        bottom == Min(call.area.top + call.area.height, call.height)
    IN IntRect(left, top, right - left, bottom - top)

\* what loadFromImage is to load: the entire image for an empty area, else
\* the part of area inside the image
AreaToLoad ==
    IF call.area.width = 0 \/ call.area.height = 0
        THEN IntRect(0, 0, call.width, call.height)
        ELSE AreaInImage

\* C22: after a loadFromImage(image, area) that returned true and left the
\* texture with a GPU handle, the size of the texture
\* is the size of the image when area is empty or covers the image, and
\* else the size of the intersection of area with the image; the texels
\* uploaded are exactly the pixels of that rectangle; and no loadFromImage
\* reads a pixel outside the image.
C22_LoadFromImageClips ==
    call.op = "loadFromImage" /\ call.returns =>
        /\ \A u \in TexelsUploaded : u[3] \in 0 .. call.width * call.height - 1
        /\ call.ret /\ textures[call.t].m_texture # 0 =>
              /\ textures[call.t].m_size = <<AreaToLoad.width, AreaToLoad.height>>
              /\ TexelsUploaded =
                    {<<dx, dy, (AreaToLoad.left + dx) + call.width * (AreaToLoad.top + dy)>> :
                         dx \in 0 .. AreaToLoad.width - 1, dy \in 0 .. AreaToLoad.height - 1}

\* the part of C22 that the code keeps: areas whose left and top are not
\* negative
C22_LoadFromImageClips_Inside ==
    call.area.left >= 0 /\ call.area.top >= 0 => C22_LoadFromImageClips

\* a sub-area that reaches over the right edge of the image was loaded
C22_Witness ==
    /\ call.op = "loadFromImage" /\ call.returns /\ call.ret
    /\ call.area = IntRect(1, 1, 4, 2)
    /\ textures[call.t].m_size = <<2, 1>>

----------------------------------------------------------------------------
(* SpecCopy: Texture::copyToImage on textures of every size, padded or not, *)
(* flipped or not                                                           *)

\* a texture with a GL texture of its actual size; m_pixelsFlipped is set by
\* the render texture that owns the texture
TextureOf(size, actualSize, pixelsFlipped) ==
    [NoTexture EXCEPT !.alive = TRUE, !.m_size = size, !.m_actualSize = actualSize,
                      !.m_texture = 1, !.m_pixelsFlipped = pixelsFlipped, !.m_cacheId = 1]

InitCopy ==
    \E bEnable \in BOOLEAN, width \in 0 .. MaxTextureSize, height \in 1 .. MaxTextureSize,
       pixelsFlipped \in BOOLEAN, bound \in {0, 1} :
        InitFrom([TexturesConstructed
                     EXCEPT !.gl.ARB_texture_non_power_of_two = bEnable,
                            !.textures["tx1"] =
                                IF width = 0 THEN @
                                ELSE TextureOf(<<width, height>>,
                                               <<getValidSize(bEnable, width).value,
                                                 getValidSize(bEnable, height).value>>,
                                               pixelsFlipped),
                            !.gl.textures = IF width = 0 THEN {} ELSE {1},
                            !.gl.texture2D = IF width = 0 THEN 0 ELSE bound])

CopyToImage(x) ==
    /\ call.op = "none"
    /\ textures[x].alive
    /\ LET done(r) == Commit(r, [CallOf("copyToImage", x) EXCEPT !.ret = r.ret])
       IN done(Texture_copyToImage(Cur, x))

NextCopy == CopyToImage("tx1")

SpecCopy == InitCopy /\ [][NextCopy]_vars

\* row i, counted from the top, of the image copyToImage has returned
ImageRow(i) ==
    SubSeq(call.ret.data, i * call.ret.size[1] + 1, (i + 1) * call.ret.size[1])

\* where logical row i of a texture is stored: textures written bottom-up
\* (flipped) hold their top row last
StoredRow(x, i) ==
    IF textures[x].m_pixelsFlipped THEN textures[x].m_size[2] - 1 - i ELSE i

----------------------------------------------------------------------------
(* SpecView: getViewport and the mappings between pixels and coordinates on *)
(* windows of several sizes                                                 *)

\* the window of the example, a window of odd size and a window of 8 x 8
WindowSizes == {<<WindowWidth, WindowHeight>>, <<3, 5>>, <<8, 8>>}

\* normalized viewports in quarters, some reaching outside the target
Viewports ==
    {<<left, top, width, height>> :
         left \in {-1, 0, 2}, top \in {0, 2}, width \in {0, 1, 2, 4}, height \in {2, 4}}

InitView ==
    \E size \in WindowSizes :
        InitFrom(RenderWindow_ctor(Start, "w1", size[1], size[2]))

GetViewport(t) ==
    /\ call.op = "none"
    /\ targets[t].alive
    /\ \E viewport \in Viewports :
          LET view == [DefaultConstructedView EXCEPT !.viewport = viewport]
          IN Commit(Cur, [CallOf("getViewport", t)
                             EXCEPT !.view = view,
                                    !.ret = RenderTarget_getViewport(Cur, t, view)])

\* float: a value is held as the number of its 64ths, which is exact for
\* every value the mappings compute from the views of MapViews, all of them
\* multiples of 1/64 below 2^25.  Each operation rounds its exact result to
\* the 24 significant bits of a float, ties to even.
FloatOne == 8 * 8
FloatAbs(x) == IF x < 0 THEN -x ELSE x

\* the distance between neighbouring floats at the magnitude m
RECURSIVE FloatUlp(_)
FloatUlp(m) == IF m < 4096 * 4096 THEN 1 ELSE 2 * FloatUlp(m \div 2)

FloatRound(x) ==
    LET nearest(m, ulp) ==
            IF 2 * (m % ulp) < ulp THEN m - (m % ulp)
            ELSE IF 2 * (m % ulp) > ulp THEN m - (m % ulp) + ulp
            ELSE IF (m \div ulp) % 2 = 0 THEN m - (m % ulp)
            ELSE m - (m % ulp) + ulp
    IN IF x < 0 THEN -nearest(-x, FloatUlp(-x)) ELSE nearest(x, FloatUlp(x))

FloatOf(i) == FloatRound(i * FloatOne)
FloatAdd(x, y) == FloatRound(x + y)

FloatMul(x, y) ==
    LET product(big, small) ==
            (big \div FloatOne) * small + ((big % FloatOne) * small) \div FloatOne
        magnitude == IF FloatAbs(x) >= FloatAbs(y) THEN product(FloatAbs(x), FloatAbs(y))
                                                   ELSE product(FloatAbs(y), FloatAbs(x))
    IN FloatRound(IF (x < 0) = (y < 0) THEN magnitude ELSE -magnitude)

\* division by a power of two
FloatDiv(x, y) ==
    LET magnitude == IF FloatAbs(y) <= FloatOne
                        THEN FloatAbs(x) * (FloatOne \div FloatAbs(y))
                        ELSE FloatAbs(x) \div (FloatAbs(y) \div FloatOne)
    IN FloatRound(IF (x < 0) = (y < 0) THEN magnitude ELSE -magnitude)

\* static_cast<int>(float)
FloatToInt(x) == TruncDiv(x, FloatOne)

\* View::getTransform for a view that is not rotated (sine 0, cosine 1): the
\* rows (a00, a01, a02) and (a10, a11, a12) of the matrix
View_getTransform(view) ==
    LET cx == FloatOf(view.center[1])
        cy == FloatOf(view.center[2])
        tx == FloatAdd(FloatAdd(FloatMul(-cx, FloatOne), -FloatMul(cy, 0)), cx)
        ty == FloatAdd(FloatAdd(FloatMul(cx, 0), -FloatMul(cy, FloatOne)), cy)
        a == FloatDiv(2 * FloatOne, FloatOf(view.size[1]))
        b == FloatDiv(-2 * FloatOne, FloatOf(view.size[2]))
        c == FloatMul(-a, cx)
        d == FloatMul(-b, cy)
    IN <<<<FloatMul(a, FloatOne), FloatMul(a, 0), FloatAdd(FloatMul(a, tx), c)>>,
         <<FloatMul(-b, 0), FloatMul(b, FloatOne), FloatAdd(FloatMul(b, ty), d)>>>>

\* Transform::getInverse of a matrix whose last row is (0, 0, 1) and whose
\* determinant is not zero
Transform_getInverse(m) ==
    LET det == FloatAdd(FloatMul(m[1][1], m[2][2]), -FloatMul(m[2][1], m[1][2]))
    IN <<<<FloatDiv(m[2][2], det),
           -FloatDiv(m[1][2], det),
           FloatDiv(FloatAdd(FloatMul(m[2][3], m[1][2]), -FloatMul(m[2][2], m[1][3])), det)>>,
         <<-FloatDiv(m[2][1], det),
           FloatDiv(m[1][1], det),
           -FloatDiv(FloatAdd(FloatMul(m[2][3], m[1][1]), -FloatMul(m[2][1], m[1][3])), det)>>>>

\* Transform::transformPoint
Transform_transformPoint(m, point) ==
    <<FloatAdd(FloatAdd(FloatMul(m[1][1], point[1]), FloatMul(m[1][2], point[2])), m[1][3]),
      FloatAdd(FloatAdd(FloatMul(m[2][1], point[1]), FloatMul(m[2][2], point[2])), m[2][3])>>

\* RenderTarget::mapPixelToCoords(point, view)
RenderTarget_mapPixelToCoords(s, t, point, view) ==
    LET normalized(viewport) ==
            <<FloatAdd(-FloatOne,
                       FloatDiv(FloatMul(2 * FloatOne, FloatOf(point[1] - viewport[1])),
                                FloatOf(viewport[3]))),
              FloatAdd(FloatOne,
                       -FloatDiv(FloatMul(2 * FloatOne, FloatOf(point[2] - viewport[2])),
                                 FloatOf(viewport[4])))>>
    IN Transform_transformPoint(Transform_getInverse(View_getTransform(view)),
                                normalized(RenderTarget_getViewport(s, t, view)))

\* a faulty mapCoordsToPixel that leaves out the origin of the viewport
RenderTarget_mapCoordsToPixel_NoOrigin(s, t, point, view) ==
    LET pixel(normalized, viewport) ==
            <<FloatToInt(FloatMul(FloatDiv(FloatAdd(normalized[1], FloatOne), 2 * FloatOne),
                                  FloatOf(viewport[3]))),
              FloatToInt(FloatMul(FloatDiv(FloatAdd(-normalized[2], FloatOne), 2 * FloatOne),
                                  FloatOf(viewport[4])))>>
    IN pixel(Transform_transformPoint(View_getTransform(view), point),
             RenderTarget_getViewport(s, t, view))

\* RenderTarget::mapCoordsToPixel(point, view)
RenderTarget_mapCoordsToPixel(s, t, point, view) ==
    LET pixel(normalized, viewport) ==
            <<FloatToInt(FloatAdd(FloatMul(FloatDiv(FloatAdd(normalized[1], FloatOne),
                                                    2 * FloatOne),
                                           FloatOf(viewport[3])),
                                  FloatOf(viewport[1]))),
              FloatToInt(FloatAdd(FloatMul(FloatDiv(FloatAdd(-normalized[2], FloatOne),
                                                    2 * FloatOne),
                                           FloatOf(viewport[4])),
                                  FloatOf(viewport[2])))>>
    IN pixel(Transform_transformPoint(View_getTransform(view), point),
             RenderTarget_getViewport(s, t, view))

\* views on the whole target and on its lower left quarter, of 8 x 8 and of
\* 2 x 2 units, near the origin and 2^24 units away from it
MapViews ==
    {[center |-> <<c, c>>, size |-> <<size, size>>, viewport |-> viewport] :
         c \in {4, 4096 * 4096}, size \in {2, 8},
         viewport \in {<<0, 0, 4, 4>>, <<0, 2, 2, 2>>}}

\* the pixels of the window of 8 x 8 and the pixels next to it
MapPoints == (-1 .. 8) \X (-1 .. 8)

MapPixelToCoords(t) ==
    /\ call.op = "none"
    /\ targets[t].alive
    /\ targets[t].m_size = <<8, 8>>
    /\ \E view \in MapViews, point \in MapPoints :
          Commit(Cur, [CallOf("mapPixelToCoords", t)
                          EXCEPT !.view = view, !.point = point,
                                 !.coords = RenderTarget_mapPixelToCoords(Cur, t, point, view)])

\* the coordinates mapPixelToCoords has returned are mapped back
MapCoordsToPixel(t) ==
    /\ call.op = "mapPixelToCoords"
    /\ call.t = t
    /\ Commit(Cur, [call EXCEPT !.op = "mapCoordsToPixel",
                                !.ret = RenderTarget_mapCoordsToPixel(Cur, t, call.coords,
                                                                      call.view)])

NextView ==
    \/ GetViewport("w1")
    \/ MapPixelToCoords("w1")
    \/ MapCoordsToPixel("w1")

SpecView == InitView /\ [][NextView]_vars

\* n is what is left of the number quarters / 4 + 0.5 once its fraction is
\* cut off
IsTruncOfHalfPlus(n, quarters) ==
    IF quarters + 2 >= 0
        THEN 4 * n <= quarters + 2 /\ quarters + 2 < 4 * n + 4
        ELSE 4 * n - 4 < quarters + 2 /\ quarters + 2 <= 4 * n

\* C24: getViewport(view) on a target of size (W, H) returns, for the
\* normalized viewport (l, t, w, h), the rectangle (trunc(0.5 + W * l),
\* trunc(0.5 + H * t), trunc(0.5 + W * w), trunc(0.5 + H * h)); on a target of
\* 800 x 600 the viewport (0, 0, 1, 1) gives (0, 0, 800, 600) and the viewport
\* (0, 0.5, 0.5, 0.5) gives (0, 300, 400, 300).
C24_GetViewportRounds ==
    call.op = "getViewport" =>
        /\ IsTruncOfHalfPlus(call.ret[1], targets[call.t].m_size[1] * call.view.viewport[1])
        /\ IsTruncOfHalfPlus(call.ret[2], targets[call.t].m_size[2] * call.view.viewport[2])
        /\ IsTruncOfHalfPlus(call.ret[3], targets[call.t].m_size[1] * call.view.viewport[3])
        /\ IsTruncOfHalfPlus(call.ret[4], targets[call.t].m_size[2] * call.view.viewport[4])
        /\ targets[call.t].m_size = <<800, 600>> =>
              /\ call.view.viewport = <<0, 0, 4, 4>> => call.ret = <<0, 0, 800, 600>>
              /\ call.view.viewport = <<0, 2, 2, 2>> => call.ret = <<0, 300, 400, 300>>

\* the viewport (0, 0.5, 0.5, 0.5) was asked for on the window of 800 x 600
C24_Witness ==
    /\ call.op = "getViewport"
    /\ targets[call.t].m_size = <<800, 600>>
    /\ call.view.viewport = <<0, 2, 2, 2>>
    /\ call.ret = <<0, 300, 400, 300>>

\* a viewport whose width in pixels has the fraction 0.5 was asked for
C24_WitnessHalf ==
    /\ call.op = "getViewport"
    /\ targets[call.t].m_size = <<3, 5>>
    /\ call.view.viewport = <<-1, 2, 2, 2>>
    /\ call.ret = <<0, 3, 2, 3>>

----------------------------------------------------------------------------
(* SpecResize: a window that is created, resized, given views and cleared   *)

\* RenderWindow::onResize(w, h)
RenderWindow_onResize(s, t, w, h) ==
    LET resized(r) == RenderTarget_setView(r, t, r.targets[t].m_view)
    IN resized([s EXCEPT !.targets[t].m_size = <<w, h>>])

\* the sizes a window is resized to
ResizeSizes == {<<WindowWidth, WindowHeight>>, <<400, 300>>, <<1024, 768>>}

OnResize(t) ==
    /\ targets[t].alive
    /\ \E size \in ResizeSizes :
          Commit(RenderWindow_onResize(Cur, t, size[1], size[2]),
                 [CallOf("onResize", t) EXCEPT !.width = size[1], !.height = size[2]])

NextResize ==
    \/ OnCreate("w1")
    \/ OnResize("w1")
    \/ SetView("w1", Views)
    \/ Clear("w1")

SpecResize == InitOne /\ [][NextResize]_vars

\* C26: after onResize(w, h) the size of the window is (w, h) and its
\* default view covers the rectangle (0, 0, w, h).
C26_ResizeRederivesDefaultView ==
    call.op = "onResize" =>
        /\ targets[call.t].m_size = <<call.width, call.height>>
        /\ targets[call.t].m_defaultView = ViewOfRect(0, 0, call.width, call.height)

\* the part of C26 that the code keeps: the size
C26_ResizeSetsSize ==
    call.op = "onResize" => targets[call.t].m_size = <<call.width, call.height>>

----------------------------------------------------------------------------
(* SpecOff: a window and a render texture whose framebuffer is created on   *)
(* activation, which may fail                                               *)

\* a window, and a render texture that has no framebuffer object yet
OffscreenConstructed ==
    [RenderTarget_ctor(RenderWindow_ctor(Start, "w1", WindowWidth, WindowHeight),
                       "rt", <<WindowWidth, WindowHeight>>)
        EXCEPT !.fbo = [NewFbo EXCEPT !.m_width = WindowWidth, !.m_height = WindowHeight,
                                      !.m_textureId = FboTexture]]

InitOff == InitFrom(OffscreenConstructed)

\* the environments in which the framebuffer of the render texture is
\* created: glGenFramebuffers fails, the framebuffer is incomplete, or all
\* goes well
OffEnvs(s) ==
    {[NoEnv EXCEPT !.fb = fb, !.complete = complete] :
         fb \in GenNames(s.gl.framebuffers), complete \in BOOLEAN}

\* clear on any target; activated records isActive(m_id) || setActive(true)
ClearOn(t) ==
    /\ Usable(t)
    /\ \E env \in OffEnvs(Cur) :
          Commit(RenderTarget_clear(Cur, t, "Black", env),
                 [CallOf("clear", t)
                     EXCEPT !.activated = ActiveOrSetActive(Cur, t, env).ret])

\* draw(vertices, vertexCount, type, states) on any target
DrawOn(t) ==
    /\ Usable(t)
    /\ \E env \in OffEnvs(Cur), vertices \in {NULL, "va"} :
          Commit(RenderTarget_draw(Cur, t, vertices, 3, Triangles,
                                   RenderStates(BlendAlpha), env),
                 [CallOf("draw", t)
                     EXCEPT !.vertices = vertices, !.count = 3,
                            !.activated = ActiveOrSetActive(Cur, t, env).ret])

\* draw(vertexBuffer, firstVertex, vertexCount, states) on any target
DrawVBOn(t) ==
    /\ Usable(t)
    /\ \E env \in OffEnvs(Cur), vertexCount \in {0, MaxVbSize} :
          Commit(RenderTarget_drawVertexBuffer(Cur, t, 0, vertexCount,
                                               RenderStates(BlendAlpha), env),
                 [CallOf("drawVertexBuffer", t)
                     EXCEPT !.first = 0, !.count = vertexCount,
                            !.activated = ActiveOrSetActive(Cur, t, env).ret])

VbCreateFull ==
    /\ pipelineRefCount > 0
    /\ vbuf.m_size = 0
    /\ Commit(VertexBuffer_create(Cur, MaxVbSize, [vao |-> CallerVao, vbo |-> CallerVbo]),
              [CallOf("vbCreate", NULL) EXCEPT !.count = MaxVbSize])

NextOff ==
    \/ \E t \in {"w1", "rt"} :
          \/ OnCreate(t)
          \/ ClearOn(t)
          \/ DrawOn(t)
          \/ DrawVBOn(t)
    \/ VbCreateFull

SpecOff == InitOff /\ [][NextOff]_vars

\* C27: a clear or a draw, from vertices or from a vertex buffer, on a target
\* that is not the active one and whose setActive(true) returns false issues
\* no glClear and no glDrawArrays, leaves the pipeline, its program, uniforms
\* and buffers and the last active id as they were, and returns.
C27_InactiveTargetSkipped ==
    [][call'.op \in {"clear", "draw", "drawVertexBuffer"} /\ ~call'.activated =>
          /\ \A i \in DOMAIN issued' : issued'[i].cmd \notin {"glClear", "glDrawArrays"}
          /\ pipeline' = pipeline
          /\ gl'.program = gl.program
          /\ gl'.uniforms = gl.uniforms
          /\ gl'.buffers = gl.buffers
          /\ gl'.vertexArray = gl.vertexArray
          /\ gl'.arrayBuffer = gl.arrayBuffer
          /\ gl'.clearColor = gl.clearColor
          /\ lastActiveId' = lastActiveId
          /\ call'.returns]_vars

\* a draw of three vertices on the render texture whose activation failed,
\* after the window was cleared
C27_Witness ==
    /\ call.op = "draw" /\ call.t = "rt" /\ call.vertices = "va"
    /\ ~call.activated
    /\ lastActiveId = targets["w1"].m_id /\ lastActiveId # 0

\* a draw of a vertex buffer, and a clear, on the render texture whose
\* activation failed
C27_WitnessVB ==
    /\ call.op = "drawVertexBuffer" /\ call.t = "rt" /\ call.count = MaxVbSize
    /\ vbuf.m_size = MaxVbSize
    /\ ~call.activated

C27_WitnessClear ==
    /\ call.op = "clear" /\ call.t = "rt"
    /\ ~call.activated

----------------------------------------------------------------------------
(* SpecDraw: draws with and without texture, with the built-in and with a   *)
(* custom shader, of textures that are destroyed and created again          *)

\* the cap of the texture ids handed out under SpecDraw
MaxDrawIds == 7

\* create(1, 1) on a platform where glGenTextures returns `name`
CreateEnv(name) ==
    [validWidth |-> [returns |-> TRUE, value |-> 1],
     validHeight |-> [returns |-> TRUE, value |-> 1], texture |-> name]

\* sf::Texture x; x.create(1, 1);
TextureCreated(s, x, name) == Texture_create(Texture_ctor(s, x), x, 1, 1, CreateEnv(name))

\* an initialized window, the texture tx1 and the texture tx2 of a render
\* texture, which is attached to a framebuffer object and holds its rows
\* bottom-up
DrawConstructed ==
    [TextureCreated(TextureCreated(
                        RenderTarget_initialize(
                            RenderWindow_ctor(Start, "w1", WindowWidth, WindowHeight), "w1"),
                        "tx1", 1),
                    "tx2", 2)
        EXCEPT !.textures["tx2"].m_fboAttachment = TRUE,
               !.textures["tx2"].m_pixelsFlipped = TRUE]

InitDraw == InitFrom(DrawConstructed)

TexturedStates(texture, shader) ==
    [RenderStates(BlendAlpha) EXCEPT !.texture = texture, !.shader = shader]

\* draw(vertices, 3, Triangles, states) with a texture, a shader, both or
\* none in the states
DrawTextured(t) ==
    /\ Usable(t)
    /\ \E texture \in {NULL} \cup {x \in TextureNames : textures[x].alive},
          shader \in {NULL, "customShader"} :
          Commit(RenderTarget_draw(Cur, t, "va", 3, Triangles,
                                   TexturedStates(texture, shader), NoEnv),
                 [CallOf("draw", t) EXCEPT !.vertices = "va", !.count = 3,
                                           !.texture = texture, !.shader = shader])

\* a texture goes out of scope
TextureDestroyed(x) ==
    /\ textures[x].alive
    /\ ~textures[x].m_fboAttachment
    /\ Commit(Texture_dtor(Cur, x), CallOf("textureDestroy", x))

\* a new texture is constructed and created; glGenTextures returns the
\* lowest name that is free
TextureRecreated(x) ==
    /\ ~textures[x].alive
    /\ textureNextId + 1 <= MaxDrawIds
    /\ \E name \in GenTextureNames(gl.textures) \ {0} :
          Commit(TextureCreated(Cur, x, name), CallOf("textureCreate", x))

NextDraw ==
    \/ DrawTextured("w1")
    \/ TextureDestroyed("tx1")
    \/ TextureRecreated("tx1")

SpecDraw == InitDraw /\ [][NextDraw]_vars

\* the last step was a draw with the built-in shader and texture x
DrewTexture(x) ==
    /\ call.op = "draw" /\ call.shader = NULL /\ call.texture = x
    /\ DrawCmds # {}

\* C28: every draw with the built-in shader of a texture that is attached to
\* a framebuffer object executes with that texture bound to GL_TEXTURE_2D,
\* a draw that follows a draw of the same texture included.
C28_FboTextureBoundAtDraw ==
    \A x \in TextureNames :
        DrewTexture(x) /\ textures[x].m_fboAttachment =>
            \A i \in DrawCmds : issued[i].at.texture2D = textures[x].m_texture

\* C29: when a texture has just been created with the native handle of a
\* destroyed texture that the pipeline cache still names, the draw of the
\* new texture with the built-in shader that follows binds the texture (the
\* cache is not hit) and executes with it bound to GL_TEXTURE_2D.
C29_RecycledHandleBoundAtDraw ==
    [][\A x \in TextureNames :
           (/\ call.op = "textureCreate" /\ call.t = x
            /\ pipeline.m_cacheTextureId = textures[x].m_texture
            /\ call'.op = "draw" /\ call'.shader = NULL /\ call'.texture = x)
           => /\ \E i \in DOMAIN issued' : issued'[i].cmd = "glBindTexture"
              /\ \A i \in DOMAIN issued' :
                    issued'[i].cmd = "glDrawArrays"
                        => issued'[i].at.texture2D = textures'[x].m_texture]_vars

\* C30: every draw with the built-in shader executes with the built-in
\* program in use, its use-texture uniform equal to whether a texture was
\* supplied and, with a texture, its flip uniform equal to the flipped flag
\* of the texture; and the cached values are the values of the uniforms.
C30_UniformsMatchDraw ==
    /\ pipeline.m_cacheTextureUse = gl.uniforms.bUseTexture
    /\ pipeline.m_cacheTextureFlipped = gl.uniforms.bTexFlip
    /\ call.op = "draw" /\ call.shader = NULL =>
          \A i \in DrawCmds :
              /\ issued[i].at.program = BuiltinProgram
              /\ issued[i].at.uniforms.bUseTexture = (call.texture # NULL)
              /\ call.texture # NULL =>
                    issued[i].at.uniforms.bTexFlip = textures[call.texture].m_pixelsFlipped

\* an unflipped texture was drawn with the built-in shader after a draw that
\* left the flip uniform set
C30_Witness ==
    /\ DrewTexture("tx1")
    /\ \E i \in DOMAIN issued :
          issued[i].cmd = "glUniform" /\ issued[i].args = <<"bTexFlip", FALSE>>
    /\ \E i \in DOMAIN issued : issued[i].cmd = "glUseProgram"

----------------------------------------------------------------------------
(* C25: the round trip from a pixel to coordinates and back                 *)

\* the point of the last call lies in the viewport of its view
PointInViewport ==
    LET viewport == RenderTarget_getViewport(Cur, call.t, call.view)
    IN /\ viewport[1] <= call.point[1] /\ call.point[1] < viewport[1] + viewport[3]
       /\ viewport[2] <= call.point[2] /\ call.point[2] < viewport[2] + viewport[4]

\* the pixel returned is at most one pixel away from the point, in x and y
WithinOnePixel ==
    /\ FloatAbs(call.ret[1] - call.point[1]) <= 1
    /\ FloatAbs(call.ret[2] - call.point[2]) <= 1

FloatResolves(view, viewport) ==
    /\ FloatUlp(FloatOf(FloatAbs(view.center[1])) + FloatOf(view.size[1]) \div 2)
          * viewport[3] < 2 * FloatOf(view.size[1])
    /\ FloatUlp(FloatOf(FloatAbs(view.center[2])) + FloatOf(view.size[2]) \div 2)
          * viewport[4] < 2 * FloatOf(view.size[2])

----------------------------------------------------------------------------
(* C31: draws with a shader of the caller                                   *)

\* the cache fields of the pipeline
PipelineCache(p) == <<p.m_cacheTextureId, p.m_cacheTextureFlipped, p.m_cacheTextureUse>>

\* the commands of the step at which glDrawArrays ran with `program` in use
DrawnWith(log, program) ==
    /\ \E i \in DOMAIN log : log[i].cmd = "glDrawArrays"
    /\ \A i \in DOMAIN log : log[i].cmd = "glDrawArrays" => log[i].at.program = program

\* C31: a draw with a shader of the caller binds the program of that shader
\* before its draw command, leaves the cached texture id, flip flag and
\* use-texture flag of the pipeline as they were and ends with no program
\* in use; every draw without a shader of the caller runs its draw command
\* with the built-in program in use, whatever came before.
C31_CustomShaderDraw ==
    [][call'.op = "draw" =>
          /\ call'.shader # NULL =>
                /\ DrawnWith(issued', m_shaderProgram(call'.shader))
                /\ \E i, j \in DOMAIN issued' :
                      /\ i < j
                      /\ issued'[i].cmd = "glUseProgram"
                      /\ issued'[i].args[1] = m_shaderProgram(call'.shader)
                      /\ issued'[j].cmd = "glDrawArrays"
                /\ PipelineCache(pipeline') = PipelineCache(pipeline)
                /\ gl'.program = 0
          /\ call'.shader = NULL => DrawnWith(issued', BuiltinProgram)]_vars

\* a draw with the built-in shader, not the first draw of the window, has
\* followed a draw with a shader of the caller and has had to put the
\* built-in program back in use
C31_Witness ==
    /\ call.op = "draw" /\ call.shader = NULL
    /\ \A i \in DOMAIN issued : issued[i].cmd # "glEnable"
    /\ DrawnWith(issued, BuiltinProgram)
    /\ \E i \in DOMAIN issued :
          issued[i].cmd = "glUseProgram" /\ issued[i].args[1] = BuiltinProgram

\* a draw with a shader of the caller and the texture tx1 has run while the
\* pipeline cache named the texture tx2
C31_WitnessCustom ==
    /\ call.op = "draw" /\ call.shader = "customShader" /\ call.texture = "tx1"
    /\ DrawnWith(issued, CustomProgram)
    /\ pipeline.m_cacheTextureId = textures["tx2"].m_texture
    /\ pipeline.m_cacheTextureFlipped
    /\ gl.program = 0

----------------------------------------------------------------------------
(* C32: setView and the draw that follows it                                *)

\* the step has run a draw command for the target t
DrawsOn(t) ==
    /\ call'.op = "draw" /\ call'.t = t
    /\ \E i \in DOMAIN issued' : issued'[i].cmd = "glDrawArrays"

\* C32: setView issues no GPU command and changes nothing but the view of
\* the target and its dirty flag, which it sets; the flag stays set until a
\* draw command runs for the target, and the step of that draw issues
\* glViewport for the view set, runs its draw command with that viewport and
\* the projection of that view, and clears the flag.
C32_SetViewAppliedByNextDraw ==
    [][\A t \in Windows :
          /\ call'.op = "setView" /\ call'.t = t =>
                /\ issued' = <<>>
                /\ gl' = gl /\ pipeline' = pipeline /\ lastActiveId' = lastActiveId
                /\ targets'[t].m_cache.viewChanged
                /\ targets' = [targets EXCEPT ![t].m_view = targets'[t].m_view,
                                              ![t].m_cache.viewChanged = TRUE]
          /\ targets[t].m_cache.viewChanged /\ ~targets'[t].m_cache.viewChanged
                => DrawsOn(t)
          /\ targets[t].m_cache.viewChanged /\ DrawsOn(t) =>
                /\ ~targets'[t].m_cache.viewChanged
                /\ pipeline'.m_matProj = ViewGetTransform(targets[t].m_view)
                /\ \E i, j \in DOMAIN issued' :
                      /\ i < j
                      /\ issued'[i].cmd = "glViewport"
                      /\ issued'[i].args = GlViewportFor(targets[t].m_view)
                      /\ issued'[j].cmd = "glDrawArrays"
                /\ \A j \in DOMAIN issued' :
                      issued'[j].cmd = "glDrawArrays" =>
                          /\ issued'[j].at.viewport = GlViewportFor(targets[t].m_view)
                          /\ issued'[j].at.uniforms.aViewProj[1]
                                = ViewGetTransform(targets[t].m_view)]_vars

\* a draw of the window w1, not its first, has applied a view that differs
\* from the default view and that was set while the other window was the
\* active one
C32_Witness ==
    /\ Drew /\ call.t = "w1"
    /\ targets["w1"].m_view = QuarterView
    /\ ~targets["w1"].m_cache.viewChanged
    /\ \A i \in DOMAIN issued : issued[i].cmd # "glEnable"
    /\ \E i \in DOMAIN issued :
          issued[i].cmd = "glViewport" /\ issued[i].args = GlViewportFor(QuarterView)

----------------------------------------------------------------------------
(* C33: resetGLStates run again                                             *)
(* SpecReset: a window and a render texture; resetGLStates, clears and      *)
(* draws on both                                                            *)

\* resetGLStates (or pushGLStates, which is the same call) on any target
ResetGLStatesOn(t) ==
    /\ Usable(t)
    /\ \E env \in OffEnvs(Cur) :
          Commit(RenderTarget_resetGLStates(Cur, t, env),
                 [CallOf("resetGLStates", t)
                     EXCEPT !.activated = RenderTarget_resetGLStates(Cur, t, env).ret])

NextReset ==
    \E t \in {"w1", "rt"} :
        \/ OnCreate(t)
        \/ ResetGLStatesOn(t)
        \/ ClearOn(t)
        \/ DrawOn(t)

SpecReset == InitOff /\ [][NextReset]_vars

\* what C33 says of one step
ResetGLStatesStep ==
    /\ call'.op = "resetGLStates" /\ call'.activated =>
          /\ targets'[call'.t].m_cache.glStatesSet
          /\ targets'[call'.t].m_cache.enable
          /\ targets'[call'.t].m_cache.lastBlendMode = BlendAlpha
          /\ targets'[call'.t].m_cache.viewChanged
    /\ call.op = "resetGLStates" /\ call.activated
       /\ call'.op = "resetGLStates" /\ call'.t = call.t =>
          /\ targets' = targets
          /\ gl' = gl
          /\ pipeline' = pipeline
          /\ fbo' = fbo
          /\ lastActiveId' = lastActiveId

\* C33: a resetGLStates whose activation succeeds ends with the states-set
\* flag true, the cache enabled, the cached blend mode BlendAlpha and the
\* view marked as changed; and a resetGLStates that follows such a
\* resetGLStates of the same target leaves the caches of all targets, the
\* pipeline, the framebuffer objects and the whole GPU state exactly as the
\* first one left them.
C33_ResetGLStatesIdempotent == [][ResetGLStatesStep]_vars

\* resetGLStates has run on the render texture, whose framebuffer exists
\* and is bound, after it had run on the window and on the render texture
C33_Witness ==
    /\ call.op = "resetGLStates" /\ call.t = "rt" /\ call.activated
    /\ \A i \in DOMAIN issued : issued[i].cmd # "glGenFramebuffers"
    /\ fbo.m_frameBufferId # 0
    /\ gl.drawFramebuffer = fbo.m_frameBufferId
    /\ targets["rt"].m_cache.glStatesSet
    /\ targets["w1"].m_cache.glStatesSet

----------------------------------------------------------------------------
(* C34: the default states are set when a draw command runs                 *)

(* SpecAttempt: a window and a render texture whose context switch the      *)
(* platform may refuse at any attempt                                       *)

\* the environments of OffEnvs with every sequence of answers of the
\* platform to the two context switches a draw can attempt
AttemptEnvs(s) ==
    {[env EXCEPT !.context = <<first, second>>] :
         env \in OffEnvs(s), first \in BOOLEAN, second \in BOOLEAN}

\* draw(vertices, 3, Triangles, states) on any target
DrawAttempt(t) ==
    /\ Usable(t)
    /\ \E env \in AttemptEnvs(Cur) :
          Commit(RenderTarget_draw(Cur, t, "va", 3, Triangles, RenderStates(BlendAlpha), env),
                 [CallOf("draw", t)
                     EXCEPT !.vertices = "va", !.count = 3,
                            !.activated = ActiveOrSetActive(Cur, t, env).ret])

\* clear on any target
ClearAttempt(t) ==
    /\ Usable(t)
    /\ \E env \in AttemptEnvs(Cur) :
          Commit(RenderTarget_clear(Cur, t, "Black", env),
                 [CallOf("clear", t)
                     EXCEPT !.activated = ActiveOrSetActive(Cur, t, env).ret])

NextAttempt ==
    \E t \in {"w1", "rt"} :
        \/ OnCreate(t)
        \/ ReCreate(t)
        \/ ClearAttempt(t)
        \/ DrawAttempt(t)

SpecAttempt == InitOff /\ [][NextAttempt]_vars

\* C34: whenever a draw command has run for a target, the states-set flag of
\* the target is true, i.e. resetGLStates has applied the default states for
\* it since its last initialize.
C34_StatesSetAtDraw ==
    call.op \in {"draw", "drawVertexBuffer"} /\ DrawCmds # {} =>
        targets[call.t].m_cache.glStatesSet

----------------------------------------------------------------------------
(* C35: the framebuffer objects of a RenderTextureImplFBO                   *)

\* C35: after any sequence of create, activate and updateTexture every
\* framebuffer object that exists (all are generated by the one
\* RenderTextureImplFBO) is recorded in m_frameBufferId or in
\* m_multisampleFrameBufferId, and once the object is destroyed no
\* framebuffer object is left.
C35_FramebuffersTracked ==
    /\ gl.framebuffers \subseteq {fbo.m_frameBufferId, fbo.m_multisampleFrameBufferId}
    /\ call.op = "fboDestroy" => gl.framebuffers = {}

----------------------------------------------------------------------------
(* C36: id 0 is no target                                                   *)

\* C36: in every reachable state, the start of the process included,
\* isActive is false for a render target that is constructed and not yet
\* initialized (m_id = 0), so that a clear or a draw on it would go through
\* setActive(true).
C36_UninitializedNeverActive ==
    \A t \in Targets :
        targets[t].alive /\ targets[t].m_id = 0 => ~isActive(Cur, targets[t].m_id)

----------------------------------------------------------------------------
(* C37: getValidSize and Texture::create return                             *)

\* C37: every call of getValidSize returns, for every size of unsigned int,
\* the sizes above 2^31 without support of non-power-of-two textures
\* included.
C37_GetValidSizeReturns ==
    call.op = "getValidSize" => call.returns

\* and so does every call of Texture::create (checked under SpecTex)
C37_CreateReturns ==
    call.op = "textureCreate" => call.returns

----------------------------------------------------------------------------
(* C38: the vertex count and the data store of a vertex buffer              *)
(* SpecVbUpdate: one window and one sf::VertexBuffer that is created,       *)
(* updated from vertices and from another vertex buffer, and drawn          *)

\* glBufferSubData(GL_ARRAY_BUFFER, offset, size, data): GL_INVALID_VALUE,
\* and no change of the data store, when the range exceeds the store
glBufferSubDataAt(s, offset, size, data) ==
    IF s.gl.arrayBuffer = 0 \/ offset + size > s.gl.buffers[s.gl.arrayBuffer].size
        THEN Emit(s, "glBufferSubData", <<offset, size, data, "GL_INVALID_VALUE">>)
        ELSE Emit([s EXCEPT !.gl.buffers[s.gl.arrayBuffer].data = data,
                            !.gl.buffers[s.gl.arrayBuffer].filled = offset + size],
                  "glBufferSubData", <<offset, size, data, "GL_NO_ERROR">>)

\* glCopyBufferSubData(GL_COPY_READ_BUFFER, GL_COPY_WRITE_BUFFER, 0, 0, size)
\* into the buffer `write`: GL_INVALID_VALUE, and no copy, when size exceeds
\* the store of the write buffer
glCopyBufferSubData(s, write, size) ==
    IF size > s.gl.buffers[write].size
        THEN Emit(s, "glCopyBufferSubData", <<size, "GL_INVALID_VALUE">>)
        ELSE Emit([s EXCEPT !.gl.buffers[write].data = "copied",
                            !.gl.buffers[write].filled = size],
                  "glCopyBufferSubData", <<size, "GL_NO_ERROR">>)

\* VertexBuffer::update(const Vertex*, std::size_t, unsigned int)
VertexBuffer_update(s, vertices, vertexCount, offset) ==
    LET unbound(x) == Return(glBindVertexArray(glBindBuffer(x, 0), 0), TRUE)
        uploaded(x) ==
            unbound(glBufferSubDataAt(x, SizeofVertex * offset, SizeofVertex * vertexCount,
                                      vertices))
        resized(x) ==
            uploaded(IF vertexCount >= x.vbuf.m_size
                        THEN [glBufferData(x, SizeofVertex * vertexCount)
                                 EXCEPT !.vbuf.m_size = vertexCount]
                        ELSE x)
    IN IF s.vbuf.m_vbo = 0 THEN Return(s, FALSE)
       ELSE IF vertices = NULL THEN Return(s, FALSE)
       ELSE IF offset # 0 /\ offset + vertexCount > s.vbuf.m_size THEN Return(s, FALSE)
       ELSE resized(glBindBuffer(glBindVertexArray(s, s.vbuf.m_vao), s.vbuf.m_vbo))

\* VertexBuffer::update(const VertexBuffer&), built without SFML_OPENGL_ES;
\* env holds GLAD_GL_ARB_copy_buffer and the results of glUnmapBuffer
VertexBuffer_updateFrom(s, vertexBuffer, env) ==
    LET unmapped(x) ==
            Return(glBindBuffer(
                       Emit(glBindBuffer(
                                Emit(x, "glUnmapBuffer", <<vertexBuffer.m_vbo>>),
                                x.vbuf.m_vbo),
                            "glUnmapBuffer", <<x.vbuf.m_vbo>>),
                       0),
                   env.sourceResult /\ env.destinationResult)
        mapped(x) ==
            unmapped(Emit(glBindBuffer(Emit(x, "glMapBuffer", <<x.vbuf.m_vbo>>),
                                       vertexBuffer.m_vbo),
                          "glMapBuffer", <<vertexBuffer.m_vbo>>))
    IN IF s.vbuf.m_vbo = 0 \/ vertexBuffer.m_vbo = 0 THEN Return(s, FALSE)
       ELSE IF env.copyBuffer
           THEN Return(glCopyBufferSubData(s, s.vbuf.m_vbo,
                                           SizeofVertex * vertexBuffer.m_size), TRUE)
       ELSE mapped(glBufferData(glBindBuffer(s, s.vbuf.m_vbo),
                                SizeofVertex * vertexBuffer.m_size))

\* the other vertex buffers: never created, or created with some count
OtherVbo == CallerVbo + 1
OtherBuffers == [m_vbo : {0, OtherVbo}, m_size : 0 .. MaxVbSize]

\* update(vertices, vertexCount, offset)
VbUpdate ==
    /\ pipelineRefCount > 0
    /\ \E vertices \in {NULL, "va"}, vertexCount \in 0 .. MaxVbSize, offset \in 0 .. MaxVbSize :
          LET done(r) == Commit(r, [CallOf("vbUpdate", NULL)
                                       EXCEPT !.vertices = vertices, !.count = vertexCount,
                                              !.first = offset, !.ret = r.ret])
          IN done(VertexBuffer_update(Cur, vertices, vertexCount, offset))

\* update(vertexBuffer)
VbUpdateFrom ==
    /\ pipelineRefCount > 0
    /\ \E vertexBuffer \in OtherBuffers,
          env \in [copyBuffer : BOOLEAN, sourceResult : BOOLEAN, destinationResult : BOOLEAN] :
          LET done(r) == Commit(r, [CallOf("vbUpdateFrom", NULL)
                                       EXCEPT !.count = vertexBuffer.m_size,
                                              !.copyBuffer = env.copyBuffer, !.ret = r.ret])
          IN done(VertexBuffer_updateFrom(Cur, vertexBuffer, env))

NextVbUpdate ==
    \/ OnCreate("w1")
    \/ VbCreate
    \/ VbUpdate
    \/ VbUpdateFrom
    \/ DrawVB("w1")

SpecVbUpdate == InitOne /\ [][NextVbUpdate]_vars

\* the number of vertices the data store of the vertex buffer holds
AllocatedVertices(glState) == glState.buffers[vbuf.m_vbo].size \div SizeofVertex

\* C38: getVertexCount() is the number of vertices the data store of the
\* buffer is allocated for; after update(otherBuffer) has returned true it
\* is the vertex count of otherBuffer; and no draw command of a vertex
\* buffer reads beyond the data store.
C38_VertexCountIsAllocation ==
    /\ vbuf.m_vbo # 0 => vbuf.m_size = AllocatedVertices(gl)
    /\ call.op = "vbUpdateFrom" /\ call.ret => vbuf.m_size = call.count
    /\ call.op = "drawVertexBuffer" =>
          \A i \in DrawCmds :
              issued[i].args[2] + issued[i].args[3] <= AllocatedVertices(issued[i].at)

====
